---- MODULE Spec2Model ----
(***************************************************************************)
(* zipstream: an HTTP gateway that synthesises a ZIP archive from objects  *)
(* of an object store and serves it with byte-range support.               *)
(*                                                                         *)
(* The module models                                                       *)
(*   - Range and the StreamRange implementations (stream_range.rs),        *)
(*   - parse_range and hyper_response (serve_range.rs),                    *)
(*   - the ZIP layout builder zip_stream (zip.rs),                         *)
(*   - the upstream adapter (upstream.rs).                                 *)
(*                                                                         *)
(* u64 values are kept at their width: a u64 is a little-endian tuple of   *)
(* four 16-bit limbs, so the 2^32 and 2^64 limits of the source are the    *)
(* real ones.  Strings that are parsed are sequences of one-character      *)
(* strings; strings that are written into the archive are sequences of     *)
(* byte values.                                                            *)
(***************************************************************************)
EXTENDS Integers, Sequences, FiniteSets, TLC

VARIABLES
    \* parse_range called on its own
    range_val,      \* the Range header value handed to parse_range
    total_len,      \* the total length handed to parse_range
    parsed,         \* what parse_range returned ("Pending" before the call)
    \* one HTTP response
    pc,             \* where the request is: "request", "build", "ready", "measured",
                    \* "streaming", "done", "dropped", "panicked"
    req,            \* the client's request: its Range and If-Range headers
    data,           \* the StreamRange that is served
    res,            \* the response hyper_response built
    streams,        \* the body stream: the part streams not yet exhausted
    body,           \* the bytes the body stream has yielded so far
    gets,           \* the object-store GET requests issued so far
    \* one archive built by zip_stream and read back
    zip_entries,    \* the entries handed to zip_stream
    zip_options,    \* the ZipOptions handed to zip_stream
    requested,      \* the range handed to stream_range
    full,           \* the bytes the whole archive yielded, once collected
    \* the upstream adapter
    upstream,       \* the manifest the upstream service answered with
    first,          \* the response to the manifest before it was reordered
    \* one call of a header function of zip.rs
    header_call,    \* the function called and its arguments
    header_ret,      \* what the call returned (NoReturn before it)
    \* one response body behind its StreamMonitor
    monitor,        \* the StreamMonitor: pos, len, errored
    inner,          \* the poll results of the wrapped stream so far
    polled,         \* the poll results the monitor returned so far
    log,            \* the statuses logged by the monitor's drop
    consumer,        \* who holds the body: "none", "hyper", "dropped"
    \* one request through App::handle_request
    app,            \* the App: its Config
    incoming,       \* the client's request: method, path and query, header lines
    upstream_req,   \* what upstream::request returned for it
    upstream_res,   \* what the upstream service did with the request
    outcome,        \* the response the gateway decided on
    stage,          \* where handle_request is: "incoming", "upstream", "body", "done"
    \* one walk of take_prefix over the lengths of children
    walk_state,     \* "none", or "walking" once a range is being walked
    walk_from,      \* the range the walk started from
    walk_range,     \* the working copy of the range, shifted by each call
    walk_lens,      \* the lengths of the children not yet visited
    walk_taken      \* each call so far: the range before, the length, the prefix, the range after

parseVars == <<range_val, total_len, parsed>>

streamVars == <<streams, body, gets>>

serveVars == <<pc, req, data, res>>

zipVars == <<zip_entries, zip_options, requested, full>>

upstreamVars == <<upstream, first>>

headerVars == <<header_call, header_ret>>

monitorVars == <<monitor, inner, polled, log, consumer>>

gatewayVars == <<app, incoming, upstream_req, upstream_res, outcome, stage>>

walkVars == <<walk_state, walk_from, walk_range, walk_lens, walk_taken>>

vars == <<parseVars, serveVars, streamVars, zipVars, upstreamVars, headerVars, monitorVars, gatewayVars, walkVars>>

(***************************************************************************)
(* u64 arithmetic                                                          *)
(***************************************************************************)
Limb == 65536

\* A small non-negative integer (below 2^31) as a u64: `x as u64`.
U64(n) == <<n % Limb, (n \div Limb) % Limb, 0, 0>>

\* The u32 0xHHHHLLLL as a u64.
U32(hi, lo) == <<lo, hi, 0, 0>>

U64_MAX == <<65535, 65535, 65535, 65535>>

\* a < b on u64.
lt(a, b) == \E i \in 1..4 : a[i] < b[i] /\ \A j \in (i + 1)..4 : a[j] = b[j]

\* a >= b taken as a > b.
ge_strict(a, b) == lt(b, a)

ge(a, b) == ~lt(a, b)

\* u64::min
min(a, b) == IF lt(b, a) THEN b ELSE a

\* u64::overflowing_add: the wrapped sum and whether it overflowed.
overflowing_add(a, b) ==
    LET s1 == a[1] + b[1]
        s2 == a[2] + b[2] + (s1 \div Limb)
        s3 == a[3] + b[3] + (s2 \div Limb)
        s4 == a[4] + b[4] + (s3 \div Limb)
    IN  [val |-> <<s1 % Limb, s2 % Limb, s3 % Limb, s4 % Limb>>,
         overflow |-> s4 >= Limb]

\* u64::overflowing_sub: the wrapped difference and whether it underflowed.
overflowing_sub(a, b) ==
    LET d1 == a[1] - b[1]
        d2 == a[2] - b[2] + (d1 \div Limb)
        d3 == a[3] - b[3] + (d2 \div Limb)
        d4 == a[4] - b[4] + (d3 \div Limb)
    IN  [val |-> <<d1 % Limb, d2 % Limb, d3 % Limb, d4 % Limb>>,
         overflow |-> d4 < 0]

\* u64::saturating_sub
saturating_sub(a, b) == IF lt(a, b) THEN U64(0) ELSE overflowing_sub(a, b).val

\* `x as usize` for a value that fits TLC's integers.
as_usize(w) == w[1] + Limb * w[2]

(***************************************************************************)
(* str helpers (over sequences of one-character strings)                   *)
(***************************************************************************)
Digits == <<"0", "1", "2", "3", "4", "5", "6", "7", "8", "9">>

IsDigit(c) == \E i \in 1..10 : Digits[i] = c

DigitVal(c) == (CHOOSE i \in 1..10 : Digits[i] = c) - 1

\* char::is_whitespace on the characters the model draws
IsWhitespace(c) == c \in {" ", "\t"}

starts_with(s, p) == Len(s) >= Len(p) /\ SubSeq(s, 1, Len(p)) = p

ends_with(s, p) == Len(s) >= Len(p) /\ SubSeq(s, Len(s) - Len(p) + 1, Len(s)) = p

contains(s, c) == \E i \in 1..Len(s) : s[i] = c

\* str::find: the 1-based index of the first c, 0 when there is none.
find(s, c) == IF contains(s, c) THEN CHOOSE i \in 1..Len(s) : s[i] = c /\ \A j \in 1..(i - 1) : s[j] # c
              ELSE 0

\* str::trim
trim(s) ==
    LET keep == {i \in 1..Len(s) : ~IsWhitespace(s[i])}
    IN  IF keep = {} THEN <<>>
        ELSE SubSeq(s, CHOOSE i \in keep : \A j \in keep : i <= j,
                       CHOOSE i \in keep : \A j \in keep : j <= i)

\* 10 * w on u64, with overflow.
mul10(w) ==
    LET p1 == w[1] * 10
        p2 == w[2] * 10 + (p1 \div Limb)
        p3 == w[3] * 10 + (p2 \div Limb)
        p4 == w[4] * 10 + (p3 \div Limb)
    IN  [val |-> <<p1 % Limb, p2 % Limb, p3 % Limb, p4 % Limb>>,
         overflow |-> p4 >= Limb]

\* The digit loop of u64::from_str: checked multiply by 10, checked add.
RECURSIVE parse_digits(_, _)
parse_digits(s, acc) ==
    IF ~acc.ok \/ s = <<>> THEN acc
    ELSE IF ~IsDigit(Head(s)) THEN [ok |-> FALSE, val |-> acc.val]
    ELSE LET m == mul10(acc.val)
             a == overflowing_add(m.val, U64(DigitVal(Head(s))))
         IN  parse_digits(Tail(s), [ok |-> ~m.overflow /\ ~a.overflow, val |-> a.val])

\* str::parse::<u64>: empty and a lone sign are errors, one leading '+' is
\* accepted, '-' is not a digit for an unsigned type, overflow is an error.
parse_u64(s) ==
    LET digits == IF s # <<>> /\ Head(s) = "+" THEN Tail(s) ELSE s
    IN  IF digits = <<>> THEN [ok |-> FALSE, val |-> U64(0)]
        ELSE parse_digits(digits, [ok |-> TRUE, val |-> U64(0)])

(***************************************************************************)
(* parse_range (serve_range.rs)                                            *)
(***************************************************************************)
BytesUnit == <<"b", "y", "t", "e", "s", "=">>

Err(msg) == [kind |-> "Err", msg |-> msg, start |-> U64(0), end |-> U64(0)]

OkNone == [kind |-> "None", msg |-> "", start |-> U64(0), end |-> U64(0)]

OkSome(start, end) == [kind |-> "Some", msg |-> "", start |-> start, end |-> end]

Pending == [kind |-> "Pending", msg |-> "", start |-> U64(0), end |-> U64(0)]

ParseIdle == range_val = <<>> /\ total_len = U64(0) /\ parsed = Pending

\* An arithmetic overflow inside the function: a panic with overflow checks.
Overflowed == [kind |-> "Overflow", msg |-> "", start |-> U64(0), end |-> U64(0)]

\* "-N": the last N bytes.
suffix_form(range_end, total) ==
    LET s == parse_u64(range_end)
        d == overflowing_sub(total, s.val)
    IN  IF ~s.ok THEN Err("invalid range number")
        ELSE IF ge(s.val, total) THEN OkNone
        ELSE IF d.overflow THEN Overflowed
        ELSE OkSome(d.val, total)

\* "M-": from M to the end.
open_form(range_start, total) ==
    LET s == parse_u64(range_start)
    IN  IF ~s.ok THEN Err("invalid range number")
        ELSE IF ge(s.val, total) THEN OkNone
        ELSE OkSome(s.val, total)

closed_form_off_by_one(rv, h, total) ==
    LET s == parse_u64(SubSeq(rv, 1, h - 1))
        e == parse_u64(SubSeq(rv, h + 1, Len(rv)))
    IN  IF ~s.ok \/ ~e.ok THEN Err("invalid range number")
        ELSE IF ge(e.val, total) \/ lt(e.val, s.val) THEN OkNone
        ELSE OkSome(s.val, e.val)

closed_form_unchecked_end(rv, h, total) ==
    LET s == parse_u64(SubSeq(rv, 1, h - 1))
        e == parse_u64(SubSeq(rv, h + 1, Len(rv)))
        e1 == overflowing_add(e.val, U64(1))
    IN  IF ~s.ok THEN Err("invalid range number")
        ELSE IF ~e.ok THEN Err("invalid range number")
        ELSE IF lt(e.val, s.val) THEN OkNone
        ELSE IF e1.overflow THEN Overflowed
        ELSE OkSome(s.val, e1.val)

\* "M-N": h is the index of the first '-'.
closed_form(rv, h, total) ==
    LET s == parse_u64(SubSeq(rv, 1, h - 1))
        e == parse_u64(SubSeq(rv, h + 1, Len(rv)))
        e1 == overflowing_add(e.val, U64(1))
    IN  IF ~s.ok THEN Err("invalid range number")
        ELSE IF ~e.ok THEN Err("invalid range number")
        ELSE IF ge(e.val, total) \/ lt(e.val, s.val) THEN OkNone
        ELSE IF e1.overflow THEN Overflowed
        ELSE OkSome(s.val, e1.val)

parse_range(val, total) ==
    IF ~starts_with(val, BytesUnit) THEN Err("invalid range unit")
    ELSE LET rv == trim(SubSeq(val, Len(BytesUnit) + 1, Len(val)))
         IN  IF contains(rv, ",") THEN OkNone
             ELSE IF starts_with(rv, <<"-">>) THEN suffix_form(Tail(rv), total)
             ELSE IF ends_with(rv, <<"-">>) THEN open_form(SubSeq(rv, 1, Len(rv) - 1), total)
             ELSE IF find(rv, "-") # 0 THEN closed_form(rv, find(rv, "-"), total)
             ELSE Err("invalid range")

(***************************************************************************)
(* Range (stream_range.rs)                                                 *)
(***************************************************************************)
Range(start, end) == [start |-> start, end |-> end]

\* Range::len: end - start.
Range_len(r) == overflowing_sub(r.end, r.start).val

NoRange == [some |-> FALSE, range |-> Range(U64(0), U64(0))]

SomeRange(r) == [some |-> TRUE, range |-> r]

\* take_prefix shifting with wrapping_sub in place of saturating_sub.
take_prefix_wrapping(r, len) ==
    [prefix |-> IF lt(r.start, len) THEN SomeRange(Range(r.start, min(r.end, len)))
                ELSE NoRange,
     rest |-> Range(overflowing_sub(r.start, len).val, overflowing_sub(r.end, len).val)]

take_prefix_unclamped(r, len) ==
    [prefix |-> IF lt(r.start, len) THEN SomeRange(Range(r.start, r.end)) ELSE NoRange,
     rest |-> Range(saturating_sub(r.start, len), saturating_sub(r.end, len))]

\* Range::take_prefix: the overlap of the range with a child of length len,
\* and the range shifted left by len (what is left for the next children).
take_prefix(r, len) ==
    [prefix |-> IF lt(r.start, len) THEN SomeRange(Range(r.start, min(r.end, len)))
                ELSE NoRange,
     rest |-> Range(saturating_sub(r.start, len), saturating_sub(r.end, len))]

WalkIdle ==
    /\ walk_state = "none"
    /\ walk_from = Range(U64(0), U64(0))
    /\ walk_range = Range(U64(0), U64(0))
    /\ walk_lens = <<>>
    /\ walk_taken = <<>>

\* w / 10 and w % 10 on u64.
divmod10(w) ==
    LET c4 == w[4]
        c3 == (c4 % 10) * Limb + w[3]
        c2 == (c3 % 10) * Limb + w[2]
        c1 == (c2 % 10) * Limb + w[1]
    IN  [quot |-> <<c1 \div 10, c2 \div 10, c3 \div 10, c4 \div 10>>, rem |-> c1 % 10]

\* u64 formatted with {}: its decimal digits.
RECURSIVE to_string(_)
to_string(w) ==
    LET dm == divmod10(w)
    IN  (IF dm.quot = U64(0) THEN <<>> ELSE to_string(dm.quot)) \o <<Digits[dm.rem + 1]>>

\* to_http_range_header with the exclusive end written as it is.
to_http_range_header_exclusive_end(r) ==
    BytesUnit \o to_string(r.start) \o <<"-">> \o to_string(r.end)

\* Range::to_http_range_header: "bytes=S-(E-1)".
to_http_range_header(r) ==
    BytesUnit \o to_string(r.start) \o <<"-">> \o to_string(overflowing_sub(r.end, U64(1)).val)

\* Range::limit_end: end clamped to len.
limit_end(r, len) == Range(r.start, min(r.end, len))

(***************************************************************************)
(* StreamRange and its implementations (stream_range.rs)                   *)
(***************************************************************************)
\* impl StreamRange for Bytes: an in-memory buffer.
Bytes(b) ==
    [type |-> "Bytes", data |-> b, bucket |-> <<>>, key |-> <<>>, len |-> U64(Len(b)),
     parts |-> <<>>]

\* S3Object: the object of the store at bucket and key, with its declared length.
S3Object(bucket, key, len) ==
    [type |-> "S3Object", data |-> <<>>, bucket |-> bucket, key |-> key, len |-> len,
     parts |-> <<>>]

\* Concatenated: an ordered list of children.
Concatenated(parts) ==
    [type |-> "Concatenated", data |-> <<>>, bucket |-> <<>>, key |-> <<>>, len |-> U64(0),
     parts |-> parts]

\* Iterator::sum of the children's lengths.
RECURSIVE sum_len(_)
sum_len(parts) ==
    IF parts = <<>> THEN U64(0)
    ELSE overflowing_add(Head(parts).len, sum_len(Tail(parts))).val

\* StreamRange::len
StreamRange_len(sr) == IF sr.type = "Concatenated" THEN sum_len(sr.parts) ELSE sr.len

part_stream_short_slice(part, r) ==
    IF part.type = "Bytes"
    THEN IF ~lt(r.end, r.start) /\ ~lt(part.len, r.end)
         THEN [type |-> "Bytes",
               chunk |-> SubSeq(part.data, as_usize(r.start) + 1, as_usize(r.end) - 1),
               bucket |-> <<>>, key |-> <<>>, range |-> r, opened |-> FALSE]
         ELSE [type |-> "Panic", chunk |-> <<>>, bucket |-> <<>>, key |-> <<>>, range |-> r,
               opened |-> FALSE]
    ELSE [type |-> "S3Object", chunk |-> <<>>, bucket |-> part.bucket, key |-> part.key,
          range |-> r, opened |-> FALSE]

\* The stream a child returns for a range of its own.  Bytes slices at once
\* (Bytes::slice panics on a range outside the buffer); an S3Object only
\* describes its GET, issued when the stream is polled.
part_stream(part, r) ==
    IF part.type = "Bytes"
    THEN IF ~lt(r.end, r.start) /\ ~lt(part.len, r.end)
         THEN [type |-> "Bytes", chunk |-> SubSeq(part.data, as_usize(r.start) + 1, as_usize(r.end)),
               bucket |-> <<>>, key |-> <<>>, range |-> r, opened |-> FALSE]
         ELSE [type |-> "Panic", chunk |-> <<>>, bucket |-> <<>>, key |-> <<>>, range |-> r,
               opened |-> FALSE]
    ELSE [type |-> "S3Object", chunk |-> <<>>, bucket |-> part.bucket, key |-> part.key,
          range |-> r, opened |-> FALSE]

\* Concatenated::stream_range: walk the children with a working copy of the
\* range, stop once it is empty, collect the stream of every overlap.
RECURSIVE Concatenated_stream_range(_, _)
Concatenated_stream_range(parts, r) ==
    IF parts = <<>> \/ Range_len(r) = U64(0) THEN <<>>
    ELSE LET tp == take_prefix(r, StreamRange_len(Head(parts)))
         IN  (IF tp.prefix.some THEN <<part_stream(Head(parts), tp.prefix.range)>> ELSE <<>>)
             \o Concatenated_stream_range(Tail(parts), tp.rest)

\* StreamRange::stream_range: the part streams, flattened in order when polled.
stream_range(sr, r) ==
    IF sr.type = "Concatenated" THEN Concatenated_stream_range(sr.parts, r)
    ELSE <<part_stream(sr, r)>>

\* The sum of the bytes of a string.
RECURSIVE byte_sum(_)
byte_sum(str) == IF str = <<>> THEN 0 ELSE Head(str) + byte_sum(Tail(str))

\* Byte i of the object at bucket and key: a value no header byte (0..255)
\* equals, that differs from object to object and from offset to offset.
ObjByte(bucket, key, i) ==
    LET obj == 2 * byte_sum(bucket) + byte_sum(key)
    IN  256 + ((obj + i) * (obj + i + 1)) \div 2 + i

\* Bytes start..end-1 of the object: what a GET of exactly that range returns.
ObjBytes(bucket, key, start, end) ==
    [k \in 1..(end - start) |-> ObjByte(bucket, key, start + k - 1)]

MaxChunk == 2

StreamIdle == streams = <<>> /\ body = <<>> /\ gets = <<>>

\* Polling the body: the first part stream is an in-memory slice, yielded whole.
PollBytes ==
    /\ pc = "streaming"
    /\ streams # <<>>
    /\ Head(streams).type = "Bytes"
    /\ body' = body \o Head(streams).chunk
    /\ streams' = Tail(streams)
    /\ UNCHANGED <<gets, pc>>

\* The GET a part stream of an object sends.
GetRequest(st) == [bucket |-> st.bucket, key |-> st.key, range |-> to_http_range_header(st.range)]

\* A variant that sends the GET of every object of the range at the first
\* poll of an object.
PollS3Get_opening_all ==
    /\ pc = "streaming"
    /\ streams # <<>>
    /\ Head(streams).type = "S3Object"
    /\ ~Head(streams).opened
    /\ LET waiting == SelectSeq(streams, LAMBDA st : st.type = "S3Object" /\ ~st.opened)
       IN  gets' = gets \o [k \in DOMAIN waiting |-> GetRequest(waiting[k])]
    /\ streams' = [i \in DOMAIN streams |->
                     IF streams[i].type = "S3Object" THEN [streams[i] EXCEPT !.opened = TRUE]
                     ELSE streams[i]]
    /\ UNCHANGED <<body, pc>>

\* Polling the body: the first part stream is an object not yet requested;
\* the GET for its range goes out.
PollS3Get ==
    /\ pc = "streaming"
    /\ streams # <<>>
    /\ Head(streams).type = "S3Object"
    /\ ~Head(streams).opened
    /\ gets' = Append(gets, [bucket |-> Head(streams).bucket, key |-> Head(streams).key,
                             range |-> to_http_range_header(Head(streams).range)])
    /\ streams' = <<[Head(streams) EXCEPT !.opened = TRUE]>> \o Tail(streams)
    /\ UNCHANGED <<body, pc>>

\* Polling the body: the object's response body yields its next chunk; the
\* part stream ends with the last byte of the requested range.
PollS3Body ==
    /\ pc = "streaming"
    /\ streams # <<>>
    /\ Head(streams).type = "S3Object"
    /\ Head(streams).opened
    /\ LET st == Head(streams)
           left == as_usize(Range_len(st.range))
       IN  \E n \in 1..MaxChunk :
             /\ n <= left
             /\ body' = body \o ObjBytes(st.bucket, st.key, as_usize(st.range.start),
                                         as_usize(st.range.start) + n)
             /\ streams' = IF n = left THEN Tail(streams)
                           ELSE <<[st EXCEPT !.range =
                                     Range(overflowing_add(st.range.start, U64(n)).val,
                                           st.range.end)]>> \o Tail(streams)
    /\ UNCHANGED <<gets, pc>>

\* Polling the body: every part stream is exhausted, the body ends.
PollEnd ==
    /\ pc = "streaming"
    /\ streams = <<>>
    /\ pc' = "done"
    /\ UNCHANGED <<streams, body, gets>>

\* The consumer drops the body before its end: the part streams it has not
\* polled to their end are dropped with it, and nothing polls them again.
DropStream ==
    /\ pc = "streaming"
    /\ streams' = <<>>
    /\ pc' = "dropped"
    /\ UNCHANGED <<body, gets>>

\* The content of a StreamRange: what its len() bytes are.
RECURSIVE Content(_)
Content(sr) ==
    IF sr.type = "Bytes" THEN sr.data
    ELSE IF sr.type = "S3Object" THEN ObjBytes(sr.bucket, sr.key, 0, as_usize(sr.len))
    ELSE IF sr.parts = <<>> THEN <<>>
    ELSE Content(Head(sr.parts)) \o Content(Concatenated(Tail(sr.parts)))

(***************************************************************************)
(* ZIP headers (zip.rs)                                                    *)
(***************************************************************************)
ZIP64_VERSION == 45

BASE_VERSION == 20

\* 0xFFFFFFFF
U32_MAX == U32(65535, 65535)

\* BufMut::put_u8, put_u16_le of a small integer (truncated to the width).
put_u8(n) == <<n % 256>>

put_u16_le(n) == <<n % 256, (n \div 256) % 256>>

\* BufMut::put_u32_le of `x as u32`: the low 32 bits, little-endian.
put_u32_le(w) == put_u16_le(w[1]) \o put_u16_le(w[2])

\* BufMut::put_u64_le
put_u64_le(w) == put_u16_le(w[1]) \o put_u16_le(w[2]) \o put_u16_le(w[3]) \o put_u16_le(w[4])

\* a | b on unsigned integers.
RECURSIVE bitor(_, _)
bitor(a, b) ==
    IF a = 0 THEN b
    ELSE IF b = 0 THEN a
    ELSE (IF a % 2 = 1 \/ b % 2 = 1 THEN 1 ELSE 0) + 2 * bitor(a \div 2, b \div 2)

\* x << n on u16: the bits shifted out are lost.
shl16(x, n) == (x * (2 ^ n)) % 65536

\* DateTime<Utc>: the civil fields chrono's Datelike and Timelike return.
DateTime(year, month, day, hour, minute, second) ==
    [year |-> year, month |-> month, day |-> day,
     hour |-> hour, minute |-> minute, second |-> second]

\* Days from 1970-01-01 to the civil date (proleptic Gregorian).
days_from_civil(y, m, d) ==
    LET yy == IF m <= 2 THEN y - 1 ELSE y
        era == yy \div 400
        yoe == yy - era * 400
        mp == IF m > 2 THEN m - 3 ELSE m + 9
        doy == (153 * mp + 2) \div 5 + d - 1
        doe == yoe * 365 + yoe \div 4 - yoe \div 100 + doy
    IN  era * 146097 + doe - 719468

\* DateTime::timestamp: seconds since the Unix epoch.
timestamp(t) ==
    days_from_civil(t.year, t.month, t.day) * 86400 + t.hour * 3600 + t.minute * 60 + t.second

\* `timestamp() as u32`: the low 32 bits of the i64, two's complement.
i64_as_u32(n) == <<n % Limb, (n \div Limb) % Limb, 0, 0>>

\* zip_date: year.saturating_sub(1980) is an i32 subtraction, cast to u16.
zip_date(t) ==
    LET year == (t.year - 1980) % 65536
        month == t.month
        day == t.day
    IN  bitor(bitor(day, shl16(month, 5)), shl16(year, 9))

zip_time(t) ==
    LET second == t.second \div 2
        minute == t.minute
        hour == t.hour
    IN  bitor(bitor(second, shl16(minute, 5)), shl16(hour, 11))

\* ZipEntry
ZipEntry(archive_path, dat, crc, last_modified) ==
    [archive_path |-> archive_path, data |-> dat, crc |-> crc, last_modified |-> last_modified]

\* The extended timestamp extra field both headers end with (9 bytes).
extended_timestamp(file) ==
    put_u16_le(\h5455) \o put_u16_le(5) \o put_u8(1)
        \o put_u32_le(i64_as_u32(timestamp(file.last_modified)))

local_file_header(file, force_zip64) ==
    LET needs_zip64 == ge(file.data.len, U32_MAX) \/ force_zip64
    IN  put_u32_le(U32(\h0403, \h4b50))
        \o put_u16_le(IF needs_zip64 THEN ZIP64_VERSION ELSE BASE_VERSION)
        \o put_u16_le(0)
        \o put_u16_le(0)
        \o put_u16_le(zip_time(file.last_modified))
        \o put_u16_le(zip_date(file.last_modified))
        \o put_u32_le(file.crc)
        \o (IF needs_zip64
            THEN put_u32_le(U32_MAX) \o put_u32_le(U32_MAX)
            ELSE put_u32_le(file.data.len) \o put_u32_le(file.data.len))
        \o put_u16_le(Len(file.archive_path))
        \o put_u16_le((IF needs_zip64 THEN 20 ELSE 0) + 9)
        \o file.archive_path
        \o (IF needs_zip64
            THEN put_u16_le(1) \o put_u16_le(16)
                 \o put_u64_le(file.data.len) \o put_u64_le(file.data.len)
            ELSE <<>>)
        \o extended_timestamp(file)

central_directory_file_header(file, offset, force_zip64) ==
    LET needs_zip64 == ge(file.data.len, U32_MAX) \/ ge(offset, U32_MAX) \/ force_zip64
    IN  put_u32_le(U32(\h0201, \h4b50))
        \o put_u8(BASE_VERSION)
        \o put_u8(3)
        \o put_u16_le(IF needs_zip64 THEN ZIP64_VERSION ELSE BASE_VERSION)
        \o put_u16_le(0)
        \o put_u16_le(0)
        \o put_u16_le(zip_time(file.last_modified))
        \o put_u16_le(zip_date(file.last_modified))
        \o put_u32_le(file.crc)
        \o (IF needs_zip64
            THEN put_u32_le(U32_MAX) \o put_u32_le(U32_MAX)
            ELSE put_u32_le(file.data.len) \o put_u32_le(file.data.len))
        \o put_u16_le(Len(file.archive_path))
        \o put_u16_le((IF needs_zip64 THEN 28 ELSE 0) + 9)
        \o put_u16_le(0)
        \o put_u16_le(0)
        \o put_u16_le(0)
        \o put_u32_le(U32(\h81A4, 0))
        \o (IF needs_zip64 THEN put_u32_le(U32_MAX) ELSE put_u32_le(offset))
        \o file.archive_path
        \o (IF needs_zip64
            THEN put_u16_le(1) \o put_u16_le(24)
                 \o put_u64_le(file.data.len) \o put_u64_le(file.data.len)
                 \o put_u64_le(offset)
            ELSE <<>>)
        \o extended_timestamp(file)

\* end_of_central_directory whose classic record truncates its three values
\* instead of writing a sentinel.
end_of_central_directory_truncating(central_directory_offset, size_of_central_directory, num_entries, force_zip64) ==
    (IF \/ ge(num_entries, U64(65535))
        \/ ge(size_of_central_directory, U32_MAX)
        \/ ge(central_directory_offset, U32_MAX)
        \/ force_zip64
     THEN put_u32_le(U32(\h0606, \h4b50))
          \o put_u64_le(U64(56 - 12))
          \o put_u16_le(ZIP64_VERSION)
          \o put_u16_le(ZIP64_VERSION)
          \o put_u32_le(U64(0))
          \o put_u32_le(U64(0))
          \o put_u64_le(num_entries)
          \o put_u64_le(num_entries)
          \o put_u64_le(size_of_central_directory)
          \o put_u64_le(central_directory_offset)
          \o put_u32_le(U32(\h0706, \h4b50))
          \o put_u32_le(U64(0))
          \o put_u64_le(overflowing_add(central_directory_offset,
                                        size_of_central_directory).val)
          \o put_u32_le(U64(1))
     ELSE <<>>)
    \o put_u32_le(U32(\h0605, \h4b50))
    \o put_u16_le(0)
    \o put_u16_le(0)
    \o put_u16_le(num_entries[1])
    \o put_u16_le(num_entries[1])
    \o put_u32_le(size_of_central_directory)
    \o put_u32_le(central_directory_offset)
    \o put_u16_le(0)

end_of_central_directory(central_directory_offset, size_of_central_directory, num_entries, force_zip64) ==
    LET num_entries_16 == IF ge(num_entries, U64(65535)) THEN 65535 ELSE num_entries[1]
        size_of_central_directory_32 ==
            IF ge(size_of_central_directory, U32_MAX) THEN U32_MAX
            ELSE size_of_central_directory
        central_directory_offset_32 ==
            IF ge(central_directory_offset, U32_MAX) THEN U32_MAX
            ELSE central_directory_offset
    IN  (IF \/ ge(num_entries, U64(65535))
            \/ ge(size_of_central_directory, U32_MAX)
            \/ ge(central_directory_offset, U32_MAX)
            \/ force_zip64
         THEN put_u32_le(U32(\h0606, \h4b50))
              \o put_u64_le(U64(56 - 12))
              \o put_u16_le(ZIP64_VERSION)
              \o put_u16_le(ZIP64_VERSION)
              \o put_u32_le(U64(0))
              \o put_u32_le(U64(0))
              \o put_u64_le(num_entries)
              \o put_u64_le(num_entries)
              \o put_u64_le(size_of_central_directory)
              \o put_u64_le(central_directory_offset)
              \o put_u32_le(U32(\h0706, \h4b50))
              \o put_u32_le(U64(0))
              \o put_u64_le(overflowing_add(central_directory_offset,
                                            size_of_central_directory).val)
              \o put_u32_le(U64(1))
         ELSE <<>>)
        \o put_u32_le(U32(\h0605, \h4b50))
        \o put_u16_le(0)
        \o put_u16_le(0)
        \o put_u16_le(num_entries_16)
        \o put_u16_le(num_entries_16)
        \o put_u32_le(size_of_central_directory_32)
        \o put_u32_le(central_directory_offset_32)
        \o put_u16_le(0)

\* The loop of zip_stream with the offset advanced by the local header only.
RECURSIVE zip_stream_loop_skipping_data(_, _, _, _)
zip_stream_loop_skipping_data(files, force_zip64, i, acc) ==
    IF i > Len(files) THEN acc
    ELSE LET file == files[i]
             local_header == local_file_header(file, force_zip64)
             central_header == central_directory_file_header(file, acc.offset, force_zip64)
         IN  zip_stream_loop_skipping_data(files, force_zip64, i + 1,
               [offset |-> overflowing_add(acc.offset, U64(Len(local_header))).val,
                data_parts |-> acc.data_parts \o <<Bytes(local_header), file.data>>,
                central_directory_parts |->
                    Append(acc.central_directory_parts, Bytes(central_header))])

\* The loop of zip_stream with every central directory header built for
\* offset 0.
RECURSIVE zip_stream_loop_offset_zero(_, _, _, _)
zip_stream_loop_offset_zero(files, force_zip64, i, acc) ==
    IF i > Len(files) THEN acc
    ELSE LET file == files[i]
             local_header == local_file_header(file, force_zip64)
             central_header == central_directory_file_header(file, U64(0), force_zip64)
         IN  zip_stream_loop_offset_zero(files, force_zip64, i + 1,
               [offset |-> overflowing_add(acc.offset, overflowing_add(U64(Len(local_header)), file.data.len).val).val,
                data_parts |-> acc.data_parts \o <<Bytes(local_header), file.data>>,
                central_directory_parts |->
                    Append(acc.central_directory_parts, Bytes(central_header))])

\* The loop of zip_stream over the files from number i on: the local header
\* and the data of each file, its central directory header, the offset.
RECURSIVE zip_stream_loop(_, _, _, _)
zip_stream_loop(files, force_zip64, i, acc) ==
    IF i > Len(files) THEN acc
    ELSE LET file == files[i]
             local_header == local_file_header(file, force_zip64)
             central_header == central_directory_file_header(file, acc.offset, force_zip64)
         IN  zip_stream_loop(files, force_zip64, i + 1,
               [offset |-> overflowing_add(acc.offset,
                                           overflowing_add(U64(Len(local_header)),
                                                           file.data.len).val).val,
                data_parts |-> acc.data_parts \o <<Bytes(local_header), file.data>>,
                central_directory_parts |->
                    Append(acc.central_directory_parts, Bytes(central_header))])

\* zip_stream: local headers and data, then the central directory, then the
\* end of central directory, as one Concatenated.
zip_stream(files, options) ==
    LET done == zip_stream_loop(files, options.force_zip64, 1,
                    [offset |-> U64(0), data_parts |-> <<>>, central_directory_parts |-> <<>>])
        num_entries == U64(Len(done.central_directory_parts))
        size_of_central_directory == sum_len(done.central_directory_parts)
    IN  Concatenated(done.data_parts \o done.central_directory_parts
                     \o <<Bytes(end_of_central_directory(done.offset, size_of_central_directory,
                                                         num_entries, options.force_zip64))>>)

\* `x + y` and `x += y` on u64 are checked in a build with overflow checks
\* (they panic) and wrap in a build without. Whether an addition of the loop
\* of zip_stream overflows, from file number i on.
RECURSIVE offset_overflows(_, _, _, _)
offset_overflows(files, force_zip64, i, offset) ==
    IF i > Len(files) THEN FALSE
    ELSE LET local_header == local_file_header(files[i], force_zip64)
             step == overflowing_add(U64(Len(local_header)), files[i].data.len)
             next == overflowing_add(offset, step.val)
         IN  \/ step.overflow
             \/ next.overflow
             \/ offset_overflows(files, force_zip64, i + 1, next.val)

\* Whether Iterator::sum of the children's lengths overflows, from acc on.
RECURSIVE sum_overflows(_, _)
sum_overflows(parts, acc) ==
    IF parts = <<>> THEN FALSE
    ELSE LET next == overflowing_add(acc, Head(parts).len)
         IN  next.overflow \/ sum_overflows(Tail(parts), next.val)

\* Whether central_directory_offset + size_of_central_directory, computed
\* for the ZIP64 locator, overflows.
locator_overflows(central_directory_offset, size_of_central_directory, num_entries, force_zip64) ==
    /\ \/ ge(num_entries, U64(65535))
       \/ ge(size_of_central_directory, U32_MAX)
       \/ ge(central_directory_offset, U32_MAX)
       \/ force_zip64
    /\ overflowing_add(central_directory_offset, size_of_central_directory).overflow

\* Whether some addition of zip_stream overflows.
zip_stream_overflows(files, options) ==
    LET done == zip_stream_loop(files, options.force_zip64, 1,
                    [offset |-> U64(0), data_parts |-> <<>>, central_directory_parts |-> <<>>])
    IN  \/ offset_overflows(files, options.force_zip64, 1, U64(0))
        \/ sum_overflows(done.central_directory_parts, U64(0))
        \/ locator_overflows(done.offset, sum_len(done.central_directory_parts),
                             U64(Len(done.central_directory_parts)), options.force_zip64)

\* ZipOptions::default()
ZipOptions_default == [force_zip64 |-> FALSE]

NoFull == [some |-> FALSE, bytes |-> <<>>]

ZipIdle ==
    /\ zip_entries = <<>>
    /\ zip_options = ZipOptions_default
    /\ requested = Range(U64(0), U64(0))
    /\ full = NoFull

\* The value of header_ret before the call returned.
NoReturn == [some |-> FALSE, fn |-> "", bytes |-> <<>>, value |-> 0]

Returned(fn, bytes, value) == [some |-> TRUE, fn |-> fn, bytes |-> bytes, value |-> value]

\* One call: the kind of its arguments, and the arguments (those of the other
\* kinds at a default).
Call(kind, file, offset, force_zip64, central_directory_offset, size_of_central_directory, num_entries, t) ==
    [kind |-> kind, file |-> file, offset |-> offset, force_zip64 |-> force_zip64,
     central_directory_offset |-> central_directory_offset,
     size_of_central_directory |-> size_of_central_directory,
     num_entries |-> num_entries, t |-> t]

Epoch == DateTime(1970, 1, 1, 0, 0, 0)

NoEntry == ZipEntry(<<>>, S3Object(<<>>, <<>>, U64(0)), U64(0), Epoch)

NoCall == Call("none", NoEntry, U64(0), FALSE, U64(0), U64(0), U64(0), Epoch)

HeaderIdle == header_call = NoCall /\ header_ret = NoReturn

(***************************************************************************)
(* hyper_response (serve_range.rs)                                         *)
(***************************************************************************)
\* A header of the request or the response: absent, a value that is visible
\* ASCII text, or a value HeaderValue::to_str refuses.
NoHeader == [present |-> FALSE, text |-> FALSE, val |-> <<>>]

Text(v) == [present |-> TRUE, text |-> TRUE, val |-> v]

Opaque == [present |-> TRUE, text |-> FALSE, val |-> <<>>]

effective_range_no_if_range(rq, etag, full_len) ==
    IF rq.range.present /\ rq.range.text
    THEN LET p == parse_range(rq.range.val, full_len)
         IN  IF p.kind = "Some" THEN SomeRange(Range(p.start, p.end)) ELSE NoRange
    ELSE NoRange

effective_range_full_on_none(rq, etag, full_len) ==
    IF /\ rq.range.present
       /\ (~rq.if_range.present \/ (rq.if_range.text /\ rq.if_range.val = etag))
       /\ rq.range.text
    THEN LET p == parse_range(rq.range.val, full_len)
         IN  IF p.kind = "Some" THEN SomeRange(Range(p.start, p.end))
             ELSE IF p.kind = "None" THEN SomeRange(Range(U64(0), full_len))
             ELSE NoRange
    ELSE NoRange

\* The range the request asks for: the Range header, kept only if If-Range
\* is absent or equals the etag, read as text, parsed; an Err and an
\* Ok(None) of parse_range both give none.
effective_range(rq, etag, full_len) ==
    IF /\ rq.range.present
       /\ (~rq.if_range.present \/ (rq.if_range.text /\ rq.if_range.val = etag))
       /\ rq.range.text
    THEN LET p == parse_range(rq.range.val, full_len)
         IN  IF p.kind = "Some" THEN SomeRange(Range(p.start, p.end)) ELSE NoRange
    ELSE NoRange

content_range_exclusive_end(r, full_len) ==
    <<"b", "y", "t", "e", "s", " ">> \o to_string(r.start) \o <<"-">>
        \o to_string(r.end) \o <<"/">> \o to_string(full_len)

\* format!("bytes {}-{}/{}", range.start, range.end - 1, full_len)
content_range(r, full_len) ==
    <<"b", "y", "t", "e", "s", " ">> \o to_string(r.start) \o <<"-">>
        \o to_string(overflowing_sub(r.end, U64(1)).val) \o <<"/">> \o to_string(full_len)

\* format!("attachment; filename=\"{}\"", filename)
content_disposition(filename) ==
    <<"a", "t", "t", "a", "c", "h", "m", "e", "n", "t", ";", " ",
      "f", "i", "l", "e", "n", "a", "m", "e", "=", "\"">> \o filename \o <<"\"">>

content_length_of_full(r, full_len) == to_string(full_len)

\* res.header(CONTENT_LENGTH, range.len())
content_length(r, full_len) == to_string(Range_len(r))

\* hyper_response: the response head, the range that is streamed and the
\* body stream over it.
hyper_response(rq, content_type, etag, filename, dat) ==
    LET full_len == StreamRange_len(dat)
        full_range == Range(U64(0), full_len)
        asked == effective_range(rq, etag, full_len)
        range == limit_end(IF asked.some THEN asked.range ELSE full_range, full_len)
    IN  [status |-> IF asked.some THEN 206 ELSE 200,
         content_type |-> Text(content_type),
         accept_ranges |-> Text(<<"b", "y", "t", "e", "s">>),
         etag |-> Text(etag),
         content_disposition |-> Text(content_disposition(filename)),
         content_range |-> IF asked.some THEN Text(content_range(asked.range, full_len))
                           ELSE NoHeader,
         content_length |-> Text(content_length(range, full_len)),
         range |-> range,
         stream |-> stream_range(dat, range)]

NoResponse ==
    [status |-> 0, content_type |-> NoHeader, accept_ranges |-> NoHeader, etag |-> NoHeader,
     content_disposition |-> NoHeader, content_range |-> NoHeader,
     content_length |-> NoHeader, range |-> Range(U64(0), U64(0)), stream |-> <<>>]

NoRequest == [range |-> NoHeader, if_range |-> NoHeader]

ServeIdle == pc = "idle" /\ req = NoRequest /\ data = Bytes(<<>>) /\ res = NoResponse

(***************************************************************************)
(* StreamMonitor (serve_range.rs)                                          *)
(***************************************************************************)
\* Poll<Option<Result<Bytes, BoxError>>>
PollPending == [kind |-> "Pending", bytes |-> <<>>]

PollOk(bytes) == [kind |-> "Ok", bytes |-> bytes]

PollErr == [kind |-> "Err", bytes |-> <<>>]

PollNone == [kind |-> "None", bytes |-> <<>>]

\* StreamMonitor::new
StreamMonitor_new(len) == [pos |-> U64(0), len |-> len, errored |-> FALSE]

\* poll_next that counts the chunks instead of their bytes.
StreamMonitor_poll_next_counting_chunks(this, r) ==
    [this |-> IF r.kind = "Ok" THEN [this EXCEPT !.pos = overflowing_add(@, U64(1)).val]
              ELSE IF r.kind = "Err" THEN [this EXCEPT !.errored = TRUE]
              ELSE this,
     ret |-> r]

\* poll_next that does not remember an error.
StreamMonitor_poll_next_forgetting_error(this, r) ==
    [this |-> IF r.kind = "Ok"
              THEN [this EXCEPT !.pos = overflowing_add(@, U64(Len(r.bytes))).val]
              ELSE this,
     ret |-> r]

\* StreamMonitor::poll_next, r being what the wrapped stream's poll_next
\* returned: the monitor after the call and the value returned.
StreamMonitor_poll_next(this, r) ==
    [this |-> IF r.kind = "Ok"
              THEN [this EXCEPT !.pos = overflowing_add(@, U64(Len(r.bytes))).val]
              ELSE IF r.kind = "Err" THEN [this EXCEPT !.errored = TRUE]
              ELSE this,
     ret |-> r]

\* Drop for StreamMonitor: the status logged.
StreamMonitor_drop(this) ==
    IF ge(this.pos, this.len) THEN "complete"
    ELSE IF this.errored THEN "failed"
    ELSE "canceled"

MonitorIdle ==
    /\ monitor = StreamMonitor_new(U64(0))
    /\ inner = <<>>
    /\ polled = <<>>
    /\ log = <<>>
    /\ consumer = "none"

(***************************************************************************)
(* The upstream adapter (upstream.rs)                                      *)
(***************************************************************************)
S3Url(bucket, key) == [bucket |-> bucket, key |-> key]

ZipFileDescription(archive_name, source, length, crc, last_modified) ==
    [archive_name |-> archive_name, source |-> source, length |-> length, crc |-> crc,
     last_modified |-> last_modified]

\* The manifest, once serde_json has parsed it.
UpstreamResponse(filename, entries) == [filename |-> filename, entries |-> entries]

\* Ordering: Less is -1, Equal is 0, Greater is 1.
cmp_int(a, b) == IF a < b THEN 0 - 1 ELSE IF a > b THEN 1 ELSE 0

cmp_u64(a, b) == IF lt(a, b) THEN 0 - 1 ELSE IF lt(b, a) THEN 1 ELSE 0

\* Ord for String: byte by byte, a proper prefix is less.
RECURSIVE cmp_str(_, _)
cmp_str(a, b) ==
    IF a = <<>> THEN (IF b = <<>> THEN 0 ELSE 0 - 1)
    ELSE IF b = <<>> THEN 1
    ELSE IF Head(a) # Head(b) THEN cmp_int(Head(a), Head(b))
    ELSE cmp_str(Tail(a), Tail(b))

\* Ordering::then
Ordering_then(o, other) == IF o # 0 THEN o ELSE other

\* derive(Ord) for S3Url: bucket, then key.
S3Url_cmp(a, b) == Ordering_then(cmp_str(a.bucket, b.bucket), cmp_str(a.key, b.key))

ZipFileDescription_cmp_archive_name(a, b) == cmp_str(a.archive_name, b.archive_name)

\* derive(Ord) for ZipFileDescription: the fields in their declared order.
ZipFileDescription_cmp(a, b) ==
    Ordering_then(cmp_str(a.archive_name, b.archive_name),
    Ordering_then(S3Url_cmp(a.source, b.source),
    Ordering_then(cmp_u64(a.length, b.length),
    Ordering_then(cmp_u64(a.crc, b.crc),
                  cmp_int(timestamp(a.last_modified), timestamp(b.last_modified))))))

\* One step of the sort: x put behind every element that is not greater.
RECURSIVE insert(_, _)
insert(sorted, x) ==
    IF sorted = <<>> THEN <<x>>
    ELSE IF ZipFileDescription_cmp(x, Head(sorted)) < 0 THEN <<x>> \o sorted
    ELSE <<Head(sorted)>> \o insert(Tail(sorted), x)

\* <[ZipFileDescription]>::sort: a stable sort by Ord.
RECURSIVE sort(_)
sort(v) == IF v = <<>> THEN <<>> ELSE insert(sort(SubSeq(v, 1, Len(v) - 1)), v[Len(v)])

\* Hash for str: the bytes, then 0xff.
hash_str(str) == str \o <<255>>

\* derive(Hash) for ZipFileDescription: what the fields write to the hasher,
\* in their declared order (the DateTime as its timestamp).
ZipFileDescription_hash(e) ==
    hash_str(e.archive_name) \o hash_str(e.source.bucket) \o hash_str(e.source.key)
        \o put_u64_le(e.length) \o put_u32_le(e.crc)
        \o put_u64_le(U64(timestamp(e.last_modified)))

RECURSIVE hash_slice(_)
hash_slice(entries) ==
    IF entries = <<>> THEN <<>>
    ELSE ZipFileDescription_hash(Head(entries)) \o hash_slice(Tail(entries))

\* derive(Hash) for UpstreamResponse: the filename, the number of entries,
\* the entries.
UpstreamResponse_hash(r) ==
    hash_str(r.filename) \o put_u64_le(U64(Len(r.entries))) \o hash_slice(r.entries)

\* DefaultHasher: a fixed function from the bytes written to a u64.  The
\* standard library's function is not modelled; this one gives every byte a
\* weight that depends on where it stands and adds the weighted bytes up,
\* once per limb.
RECURSIVE hasher_mix(_, _, _, _)
hasher_mix(bytes, k, lo, hi) ==
    IF lo > hi THEN 0
    ELSE IF lo = hi THEN (bytes[lo] + 1) * (((lo * k) % 251) + 1)
    ELSE LET mid == (lo + hi) \div 2
         IN  (hasher_mix(bytes, k, lo, mid) + hasher_mix(bytes, k, mid + 1, hi)) % Limb

DefaultHasher_finish(bytes) ==
    <<hasher_mix(bytes, 31, 1, Len(bytes)), hasher_mix(bytes, 37, 1, Len(bytes)),
      hasher_mix(bytes, 41, 1, Len(bytes)), hasher_mix(bytes, 43, 1, Len(bytes))>>

HexDigits == <<"0", "1", "2", "3", "4", "5", "6", "7", "8", "9", "a", "b", "c", "d", "e", "f">>

\* u64 formatted with {:x}: its hexadecimal digits, no leading zero.
RECURSIVE to_hex(_)
to_hex(w) ==
    LET quot == <<w[1] \div 16 + (w[2] % 16) * 4096, w[2] \div 16 + (w[3] % 16) * 4096,
                  w[3] \div 16 + (w[4] % 16) * 4096, w[4] \div 16>>
    IN  (IF quot = U64(0) THEN <<>> ELSE to_hex(quot)) \o <<HexDigits[(w[1] % 16) + 1]>>

\* str::as_bytes of a file name of lower-case letters, digits and dots.
Lowercase == <<"a", "b", "c", "d", "e", "f", "g", "h", "i", "j", "k", "l", "m",
               "n", "o", "p", "q", "r", "s", "t", "u", "v", "w", "x", "y", "z">>

as_bytes(str) ==
    [i \in 1..Len(str) |->
        IF IsDigit(str[i]) THEN 48 + DigitVal(str[i])
        ELSE IF str[i] = "." THEN 46
        ELSE 96 + (CHOOSE k \in 1..26 : Lowercase[k] = str[i])]

ApplicationZip == <<"a", "p", "p", "l", "i", "c", "a", "t", "i", "o", "n", "/", "z", "i", "p">>

\* upstream::response, the entries sorted: res.entries.sort().
sorted_manifest(manifest) == [manifest EXCEPT !.entries = sort(manifest.entries)]

\* upstream::response, the ETag: the hash of the sorted manifest, in hex.
manifest_etag(sorted) ==
    to_hex(DefaultHasher_finish(
        UpstreamResponse_hash([sorted EXCEPT !.filename = as_bytes(sorted.filename)])))

\* upstream::response, the entries of the archive: every file of the sorted
\* manifest as a ZipEntry over its S3Object.
manifest_entries(sorted) ==
    [i \in 1..Len(sorted.entries) |->
        LET file == sorted.entries[i]
        IN  ZipEntry(file.archive_name,
                     S3Object(file.source.bucket, file.source.key, file.length),
                     file.crc, file.last_modified)]

NoFirst ==
    [some |-> FALSE, upstream |-> UpstreamResponse(<<>>, <<>>), etag |-> NoHeader,
     data |-> Bytes(<<>>), entries |-> <<>>, body |-> <<>>]

UpstreamIdle == upstream = UpstreamResponse(<<>>, <<>>) /\ first = NoFirst

(***************************************************************************)
(* upstream::request (upstream.rs) and App::handle_request (main.rs)       *)
(***************************************************************************)
\* Config
Config(upstream_base, strip_prefix, via_zip_stream_header_value) ==
    [upstream |-> upstream_base, strip_prefix |-> strip_prefix,
     via_zip_stream_header_value |-> via_zip_stream_header_value]

\* One header line.  A HeaderMap is the sequence of its lines: a name may
\* occur more than once; names are in lower case.
HeaderLine(name, value) == [name |-> name, value |-> value]

\* Request<Body> as received: method, path and query, header lines.
ClientRequest(method, path_and_query, headers) ==
    [method |-> method, path_and_query |-> path_and_query, headers |-> headers]

\* HeaderMap::get: the first value of the name, if there is one.
RECURSIVE HeaderMap_get(_, _)
HeaderMap_get(headers, name) ==
    IF headers = <<>> THEN [some |-> FALSE, value |-> <<>>]
    ELSE IF Head(headers).name = name THEN [some |-> TRUE, value |-> Head(headers).value]
    ELSE HeaderMap_get(Tail(headers), name)

KEEP_HEADERS == <<"authorization", "cookie", "user-agent", "referer">>

\* Err((status, msg)) and Ok(new_req) of upstream::request.
Rejected(status, msg) ==
    [ok |-> FALSE, status |-> status, msg |-> msg, uri |-> <<>>, headers |-> <<>>, body |-> <<>>]

UpstreamRequest(uri, headers, bytes) ==
    [ok |-> TRUE, status |-> 0, msg |-> "", uri |-> uri, headers |-> headers, body |-> bytes]

\* The loop over KEEP_HEADERS from its i-th name on: each name the request
\* has is added with the value `get` returns.
RECURSIVE keep_headers(_, _)
keep_headers(headers, i) ==
    IF i > Len(KEEP_HEADERS) THEN <<>>
    ELSE LET value == HeaderMap_get(headers, KEEP_HEADERS[i])
         IN  (IF value.some THEN <<HeaderLine(KEEP_HEADERS[i], value.value)>> ELSE <<>>)
             \o keep_headers(headers, i + 1)

\* upstream::request that looks at the path before the method.
upstream_request_path_first(config, rq) ==
    LET req_path == rq.path_and_query
    IN  IF ~starts_with(req_path, config.strip_prefix) THEN Rejected(404, "Not found")
        ELSE IF rq.method # "GET" THEN Rejected(405, "Only GET requests allowed")
        ELSE UpstreamRequest(
               config.upstream \o SubSeq(req_path, Len(config.strip_prefix) + 1, Len(req_path)),
               <<HeaderLine("x-via-zip-stream", config.via_zip_stream_header_value)>>
                   \o keep_headers(rq.headers, 1),
               <<>>)

\* upstream::request: the client's request turned into the upstream request.
upstream_request(config, rq) ==
    IF rq.method # "GET" THEN Rejected(405, "Only GET requests allowed")
    ELSE LET req_path == rq.path_and_query
         IN  IF ~starts_with(req_path, config.strip_prefix) THEN Rejected(404, "Not found")
             ELSE UpstreamRequest(
                    config.upstream \o SubSeq(req_path, Len(config.strip_prefix) + 1, Len(req_path)),
                    <<HeaderLine("x-via-zip-stream", config.via_zip_stream_header_value)>>
                        \o keep_headers(rq.headers, 1),
                    <<>>)

\* What the upstream service did with the request: whether the connection
\* succeeded, the status and X-Zip-Stream header of its response, whether
\* its body could be read, whether the body decodes as a manifest, and the
\* manifest.
UpstreamAnswer(connected, status, x_zip_stream, readable, decodes, manifest) ==
    [connected |-> connected, status |-> status, x_zip_stream |-> x_zip_stream,
     readable |-> readable, decodes |-> decodes, manifest |-> manifest]

NoAnswer == UpstreamAnswer(FALSE, 0, FALSE, FALSE, FALSE, UpstreamResponse(<<>>, <<>>))

\* The response the gateway decided on: an error (status, msg) turned into a
\* response (main.rs:100-102), the upstream response passed on, or the
\* archive response of upstream::response.
Reply(kind, status, msg, passed) ==
    [kind |-> kind, status |-> status, msg |-> msg, passed |-> passed]

NoReply == Reply("none", 0, "", NoAnswer)

\* The header of that name as hyper_response reads it.
header_of(headers, name) ==
    IF HeaderMap_get(headers, name).some THEN Text(HeaderMap_get(headers, name).value)
    ELSE NoHeader

GatewayIdle ==
    /\ app = Config(<<>>, <<>>, <<>>)
    /\ incoming = ClientRequest("", <<>>, <<>>)
    /\ upstream_req = Rejected(0, "")
    /\ upstream_res = NoAnswer
    /\ outcome = NoReply
    /\ stage = "idle"

(***************************************************************************)
(* Inputs of parse_range                                                   *)
(***************************************************************************)
MaxTokens == 3

\* Decimal numerals with their values.  18446744073709551615 is u64::MAX.
NumTokens == {
    [txt |-> <<"0">>, val |-> U64(0)],
    [txt |-> <<"4">>, val |-> U64(4)],
    [txt |-> <<"9">>, val |-> U64(9)],
    [txt |-> <<"1", "0">>, val |-> U64(10)],
    [txt |-> <<"1", "8", "4", "4", "6", "7", "4", "4", "0", "7",
               "3", "7", "0", "9", "5", "5", "1", "6", "1", "4">>,
     val |-> <<65534, 65535, 65535, 65535>>],
    [txt |-> <<"1", "8", "4", "4", "6", "7", "4", "4", "0", "7",
               "3", "7", "0", "9", "5", "5", "1", "6", "1", "5">>,
     val |-> U64_MAX] }

\* 2^64: one more than a u64 holds.
TooBigToken == <<"1", "8", "4", "4", "6", "7", "4", "4", "0", "7",
                 "3", "7", "0", "9", "5", "5", "1", "6", "1", "6">>

Tokens == {t.txt : t \in NumTokens} \cup
          {TooBigToken, <<"-">>, <<",">>, <<" ">>, <<"a">>, <<"+">>}

RECURSIVE Concat(_)
Concat(ss) == IF ss = <<>> THEN <<>> ELSE Head(ss) \o Concat(Tail(ss))

Units == {BytesUnit, <<"l", "i", "n", "e", "s", "=">>, <<"b", "y", "t", "e", "s">>, <<>>}

TokenSeqs == UNION {[1..n -> Tokens] : n \in 0..MaxTokens}

RangeVals == {u \o Concat(ts) : u \in Units, ts \in TokenSeqs}

TotalLens == {U64(0), U64(1), U64(10), U64_MAX}


(***************************************************************************)
(* parse_range as a state machine: one call per input                      *)
(***************************************************************************)
InitParse ==
    /\ range_val \in RangeVals
    /\ total_len \in TotalLens
    /\ parsed = Pending
    /\ ServeIdle
    /\ StreamIdle
    /\ ZipIdle
    /\ UpstreamIdle
    /\ HeaderIdle
    /\ MonitorIdle
    /\ GatewayIdle
    /\ WalkIdle

ParseRange ==
    /\ parsed = Pending
    /\ parsed' = parse_range(range_val, total_len)
    /\ UNCHANGED <<range_val, total_len, serveVars, streamVars, zipVars, upstreamVars, walkVars, gatewayVars, monitorVars, headerVars>>

NextParse == ParseRange

SpecParse == InitParse /\ [][NextParse]_vars

(***************************************************************************)
(* Inputs of hyper_response                                                *)
(***************************************************************************)
MaxServeTokens == 3

ServeTokens == {<<"0">>, <<"4">>, <<"8">>, <<"1", "0">>, <<"-">>, <<",">>, <<"a">>}

ServeTokenSeqs == UNION {[1..n -> ServeTokens] : n \in 0..MaxServeTokens}

ServeUnits == {BytesUnit, <<"l", "i", "n", "e", "s", "=">>}

RangeHeaders == {NoHeader, Opaque} \cup {Text(u \o Concat(ts)) : u \in ServeUnits, ts \in ServeTokenSeqs}

\* "ETAG", "WRONG", "application/test", "foo.zip": the values of the tests.
TestEtag == <<"E", "T", "A", "G">>

WrongEtag == <<"W", "R", "O", "N", "G">>

TestContentType == <<"a", "p", "p", "l", "i", "c", "a", "t", "i", "o", "n", "/", "t", "e", "s", "t">>

TestFilename == <<"f", "o", "o", ".", "z", "i", "p">>

IfRangeHeaders == {NoHeader, Opaque, Text(TestEtag), Text(WrongEtag)}

\* b"0123456789"
TestData == Bytes(<<48, 49, 50, 51, 52, 53, 54, 55, 56, 57>>)

ServeData == {TestData,
              Bytes(<<>>),
              Concatenated(<<Bytes(<<80, 75>>), S3Object(<<98>>, <<107>>, U64(3)), Bytes(<<>>),
                             S3Object(<<98>>, <<108>>, U64(0)), Bytes(<<1, 2, 3>>)>>)}

(***************************************************************************)
(* One response as a state machine: hyper_response, then the body polled   *)
(* to its end                                                              *)
(***************************************************************************)
InitServe ==
    /\ pc = "request"
    /\ req \in [range : RangeHeaders, if_range : IfRangeHeaders]
    /\ data \in ServeData
    /\ res = NoResponse
    /\ StreamIdle
    /\ ParseIdle
    /\ ZipIdle
    /\ UpstreamIdle
    /\ HeaderIdle
    /\ MonitorIdle
    /\ GatewayIdle
    /\ WalkIdle

HyperResponse ==
    /\ pc = "request"
    /\ res' = hyper_response(req, TestContentType, TestEtag, TestFilename, data)
    /\ streams' = res'.stream
    /\ pc' = "streaming"
    /\ UNCHANGED <<req, data, body, gets>>

NextServe ==
    \/ HyperResponse /\ UNCHANGED <<parseVars, zipVars, upstreamVars, headerVars, monitorVars, gatewayVars, walkVars>>
    \/ PollBytes /\ UNCHANGED <<parseVars, req, data, res, zipVars, upstreamVars, headerVars, monitorVars, gatewayVars, walkVars>>
    \/ PollS3Get /\ UNCHANGED <<parseVars, req, data, res, zipVars, upstreamVars, headerVars, monitorVars, gatewayVars, walkVars>>
    \/ PollS3Body /\ UNCHANGED <<parseVars, req, data, res, zipVars, upstreamVars, headerVars, monitorVars, gatewayVars, walkVars>>
    \/ PollEnd /\ UNCHANGED <<parseVars, req, data, res, zipVars, upstreamVars, headerVars, monitorVars, gatewayVars, walkVars>>

SpecServe == InitServe /\ [][NextServe]_vars


(***************************************************************************)
(* Inputs of zip_stream                                                    *)
(***************************************************************************)
MaxFiles == 2

Near == 1

\* "2006-11-10T15:40:56Z"
T2006 == DateTime(2006, 11, 10, 15, 40, 56)

\* "2018-12-06T20:15:59Z"
T2018 == DateTime(2018, 12, 6, 20, 15, 59)

\* "1979-12-31T23:59:59Z": a date before the first year a DOS date can hold.
T1979 == DateTime(1979, 12, 31, 23, 59, 59)

\* "foo.txt", b"xx"
FooEntry ==
    ZipEntry(<<102, 111, 111, 46, 116, 120, 116>>, Bytes(<<120, 120>>), U32(\hf8e1, \h180f), T2006)

\* "bar.txt", b"ABC"
BarEntry ==
    ZipEntry(<<98, 97, 114, 46, 116, 120, 116>>, Bytes(<<65, 66, 67>>), U32(\ha383, \h0348), T2018)

\* "o", an object of the store (s3://b/k, 3 bytes)
ObjEntry == ZipEntry(<<111>>, S3Object(<<98>>, <<107>>, U64(3)), U32(\h1234, \h5678), T1979)

\* "e", an empty object of the store (s3://b/l)
EmptyEntry == ZipEntry(<<101>>, S3Object(<<98>>, <<108>>, U64(0)), U32(0, 0), T2018)

EntryPool == {FooEntry, BarEntry, ObjEntry, EmptyEntry}

FileLists == UNION {[1..n -> EntryPool] : n \in 0..MaxFiles}

\* The offsets at which a child of the archive starts or ends.
RECURSIVE Boundaries(_, _)
Boundaries(parts, at) ==
    IF parts = <<>> THEN {at}
    ELSE {at} \cup Boundaries(Tail(parts), at + as_usize(StreamRange_len(Head(parts))))

\* The offsets a range is drawn from: those within Near of a boundary.
Offsets(sr) ==
    {o \in 0..as_usize(StreamRange_len(sr)) :
        \E b \in Boundaries(sr.parts, 0) : o - b \in (0 - Near)..Near}

(***************************************************************************)
(* One archive as a state machine: zip_stream, the whole archive streamed  *)
(* and kept, then one range of it streamed                                 *)
(***************************************************************************)
InitZip ==
    /\ pc = "build"
    /\ zip_entries \in FileLists
    /\ zip_options \in [force_zip64 : BOOLEAN]
    /\ requested = Range(U64(0), U64(0))
    /\ full = NoFull
    /\ req = NoRequest
    /\ data = Bytes(<<>>)
    /\ res = NoResponse
    /\ StreamIdle
    /\ ParseIdle
    /\ UpstreamIdle
    /\ HeaderIdle
    /\ MonitorIdle
    /\ GatewayIdle
    /\ WalkIdle

ZipStream ==
    /\ pc = "build"
    /\ data' = zip_stream(zip_entries, zip_options)
    /\ pc' = "ready"
    /\ UNCHANGED <<req, res, streamVars, zipVars>>

\* zip.stream_range(Range { start: 0, end: zip.len() })
StreamWhole ==
    /\ pc = "ready"
    /\ ~full.some
    /\ requested' = Range(U64(0), StreamRange_len(data))
    /\ streams' = stream_range(data, requested')
    /\ body' = <<>>
    /\ gets' = <<>>
    /\ pc' = "streaming"
    /\ UNCHANGED <<req, data, res, zip_entries, zip_options, full>>

\* buf: the whole archive, once its stream has ended.
KeepWhole ==
    /\ pc = "done"
    /\ ~full.some
    /\ full' = [some |-> TRUE, bytes |-> body]
    /\ pc' = "ready"
    /\ UNCHANGED <<req, data, res, streamVars, zip_entries, zip_options, requested>>

\* zip.stream_range(Range { start, end })
StreamSlice ==
    /\ pc = "ready"
    /\ full.some
    /\ \E start \in Offsets(data), end \in Offsets(data) :
         /\ start <= end
         /\ requested' = Range(U64(start), U64(end))
    /\ streams' = stream_range(data, requested')
    /\ body' = <<>>
    /\ gets' = <<>>
    /\ pc' = "streaming"
    /\ UNCHANGED <<req, data, res, zip_entries, zip_options, full>>

NextZip ==
    \/ ZipStream /\ UNCHANGED <<parseVars, upstreamVars, headerVars, monitorVars, gatewayVars, walkVars>>
    \/ StreamWhole /\ UNCHANGED <<parseVars, upstreamVars, headerVars, monitorVars, gatewayVars, walkVars>>
    \/ KeepWhole /\ UNCHANGED <<parseVars, upstreamVars, headerVars, monitorVars, gatewayVars, walkVars>>
    \/ StreamSlice /\ UNCHANGED <<parseVars, upstreamVars, headerVars, monitorVars, gatewayVars, walkVars>>
    \/ PollBytes /\ UNCHANGED <<parseVars, req, data, res, zipVars, upstreamVars, headerVars, monitorVars, gatewayVars, walkVars>>
    \/ PollS3Get /\ UNCHANGED <<parseVars, req, data, res, zipVars, upstreamVars, headerVars, monitorVars, gatewayVars, walkVars>>
    \/ PollS3Body /\ UNCHANGED <<parseVars, req, data, res, zipVars, upstreamVars, headerVars, monitorVars, gatewayVars, walkVars>>
    \/ PollEnd /\ UNCHANGED <<parseVars, req, data, res, zipVars, upstreamVars, headerVars, monitorVars, gatewayVars, walkVars>>
    \/ DropStream /\ UNCHANGED <<parseVars, req, data, res, zipVars, upstreamVars, headerVars, monitorVars, gatewayVars, walkVars>>

SpecZip == InitZip /\ [][NextZip]_vars

(***************************************************************************)
(* Inputs of upstream::response                                            *)
(***************************************************************************)
MaxManifest == 3

\* {"archive_name": "a", "source": "s3://b/k", "length": 2, ...}
DescAK == ZipFileDescription(<<97>>, S3Url(<<98>>, <<107>>), U64(2), U32(1, 2), T2006)

\* The same archive name for another object: s3://b/l.
DescAL == ZipFileDescription(<<97>>, S3Url(<<98>>, <<108>>), U64(2), U32(1, 2), T2006)

\* "B" sorts before "a"; s3://c/k, 1 byte.
DescB == ZipFileDescription(<<66>>, S3Url(<<99>>, <<107>>), U64(1), U32(3, 4), T2018)

DescPool == {DescAK, DescAL, DescB}

Filenames == {<<"a", ".", "z", "i", "p">>, <<"b">>}

Manifests ==
    {UpstreamResponse(f, es) :
        f \in Filenames, es \in UNION {[1..n -> DescPool] : n \in 0..MaxManifest}}

UpstreamRequests ==
    {NoRequest, [range |-> Text(BytesUnit \o <<"0", "-", "9">>), if_range |-> NoHeader]}

\* v with the elements at i and j exchanged.
swap(v, i, j) == [v EXCEPT ![i] = v[j], ![j] = v[i]]

(***************************************************************************)
(* The adapter as a state machine: a manifest answered and the archive     *)
(* streamed, then the same manifest in another order answered again        *)
(***************************************************************************)
InitUpstream ==
    /\ pc = "request"
    /\ req \in UpstreamRequests
    /\ upstream \in Manifests
    /\ first = NoFirst
    /\ data = Bytes(<<>>)
    /\ res = NoResponse
    /\ StreamIdle
    /\ ParseIdle
    /\ ZipIdle
    /\ HeaderIdle
    /\ MonitorIdle
    /\ GatewayIdle
    /\ WalkIdle

\* upstream::response on a manifest that parsed: the entries sorted, the ETag
\* hashed from the sorted manifest, the archive laid out by zip_stream, the
\* response and its body built by hyper_response.
UpstreamResponded ==
    /\ pc = "request"
    /\ zip_entries' = manifest_entries(sorted_manifest(upstream))
    /\ data' = zip_stream(zip_entries', ZipOptions_default)
    /\ res' = hyper_response(req, ApplicationZip, manifest_etag(sorted_manifest(upstream)),
                             upstream.filename, data')
    /\ requested' = res'.range
    /\ streams' = res'.stream
    /\ body' = <<>>
    /\ gets' = <<>>
    /\ pc' = "streaming"
    /\ UNCHANGED <<req, zip_options, full, upstream, first>>

\* The response is over; what it was is kept for the next request.
KeepFirst ==
    /\ pc = "done"
    /\ ~first.some
    /\ first' = [some |-> TRUE, upstream |-> upstream, etag |-> res.etag, data |-> data,
                 entries |-> zip_entries, body |-> body]
    /\ pc' = "request"
    /\ UNCHANGED <<req, data, res, streamVars, zipVars, upstream>>

\* The upstream service lists the same entries in another order.
Reorder ==
    /\ pc = "request"
    /\ first.some
    /\ \E i \in DOMAIN upstream.entries, j \in DOMAIN upstream.entries :
         /\ i < j
         /\ upstream' = [upstream EXCEPT !.entries = swap(upstream.entries, i, j)]
    /\ UNCHANGED <<pc, req, data, res, streamVars, zipVars, first>>

NextUpstream ==
    \/ UpstreamResponded /\ UNCHANGED <<parseVars, headerVars, monitorVars, gatewayVars, walkVars>>
    \/ KeepFirst /\ UNCHANGED <<parseVars, headerVars, monitorVars, gatewayVars, walkVars>>
    \/ Reorder /\ UNCHANGED <<parseVars, headerVars, monitorVars, gatewayVars, walkVars>>
    \/ PollBytes /\ UNCHANGED <<parseVars, req, data, res, zipVars, upstreamVars, headerVars, monitorVars, gatewayVars, walkVars>>
    \/ PollS3Get /\ UNCHANGED <<parseVars, req, data, res, zipVars, upstreamVars, headerVars, monitorVars, gatewayVars, walkVars>>
    \/ PollS3Body /\ UNCHANGED <<parseVars, req, data, res, zipVars, upstreamVars, headerVars, monitorVars, gatewayVars, walkVars>>
    \/ PollEnd /\ UNCHANGED <<parseVars, req, data, res, zipVars, upstreamVars, headerVars, monitorVars, gatewayVars, walkVars>>

SpecUpstream == InitUpstream /\ [][NextUpstream]_vars

(***************************************************************************)
(* Inputs of the header functions: lengths, offsets and counts around the  *)
(* limits of the 16-bit and 32-bit fields, instants around 1980            *)
(***************************************************************************)
NearLimit == 1

\* The u64 values within NearLimit of a limit, and two small ones.
Around(limit) ==
    {saturating_sub(limit, U64(k)) : k \in 0..NearLimit}
        \cup {overflowing_add(limit, U64(k)).val : k \in 0..NearLimit}
        \cup {U64(0), U64(3)}

\* Instants around the first year of a DOS date, the instant of
\* test_zip_date_time ("2006-10-11T15:40:56Z") and the last years of a DOS date.
Instants ==
    {DateTime(y, mo, d, h, mi, s) :
        y \in {1970, 1979, 1980, 2006, 2107, 2108}, mo \in {1, 10, 12}, d \in {1, 11, 31},
        h \in {0, 15, 23}, mi \in {0, 40, 59}, s \in {0, 1, 56, 59}}

\* "o": an object of the store of each length, modified after or before 1980.
HeaderEntries ==
    {ZipEntry(<<111>>, S3Object(<<98>>, <<107>>, len), U32(\h1234, \h5678), t) :
        len \in Around(U32_MAX), t \in {T2006, T1979}}

HeaderCalls ==
    {Call("entry", file, offset, force_zip64, U64(0), U64(0), U64(0), Epoch) :
        file \in HeaderEntries, offset \in Around(U32_MAX), force_zip64 \in BOOLEAN}
    \cup {Call("trailer", NoEntry, U64(0), force_zip64, central_directory_offset,
               size_of_central_directory, num_entries, Epoch) :
            force_zip64 \in BOOLEAN, central_directory_offset \in Around(U32_MAX),
            size_of_central_directory \in Around(U32_MAX), num_entries \in Around(U64(65535))}
    \cup {Call("instant", NoEntry, U64(0), FALSE, U64(0), U64(0), U64(0), t) : t \in Instants}

(***************************************************************************)
(* The header functions called on their own                                *)
(***************************************************************************)
InitHeaders ==
    /\ header_call \in HeaderCalls
    /\ header_ret = NoReturn
    /\ ParseIdle
    /\ ServeIdle
    /\ StreamIdle
    /\ ZipIdle
    /\ UpstreamIdle
    /\ MonitorIdle
    /\ GatewayIdle
    /\ WalkIdle

LocalFileHeader ==
    /\ header_call.kind = "entry"
    /\ ~header_ret.some
    /\ header_ret' = Returned("local_file_header",
                              local_file_header(header_call.file, header_call.force_zip64), 0)
    /\ UNCHANGED header_call

CentralDirectoryFileHeader ==
    /\ header_call.kind = "entry"
    /\ ~header_ret.some
    /\ header_ret' = Returned("central_directory_file_header",
                              central_directory_file_header(header_call.file, header_call.offset,
                                                            header_call.force_zip64), 0)
    /\ UNCHANGED header_call

EndOfCentralDirectory ==
    /\ header_call.kind = "trailer"
    /\ ~header_ret.some
    /\ header_ret' = Returned("end_of_central_directory",
                              end_of_central_directory(header_call.central_directory_offset,
                                                       header_call.size_of_central_directory,
                                                       header_call.num_entries,
                                                       header_call.force_zip64), 0)
    /\ UNCHANGED header_call

ZipDate ==
    /\ header_call.kind = "instant"
    /\ ~header_ret.some
    /\ header_ret' = Returned("zip_date", <<>>, zip_date(header_call.t))
    /\ UNCHANGED header_call

ZipTime ==
    /\ header_call.kind = "instant"
    /\ ~header_ret.some
    /\ header_ret' = Returned("zip_time", <<>>, zip_time(header_call.t))
    /\ UNCHANGED header_call

NextHeaders ==
    \/ LocalFileHeader /\ UNCHANGED <<parseVars, serveVars, streamVars, zipVars, upstreamVars, monitorVars, gatewayVars, walkVars>>
    \/ CentralDirectoryFileHeader /\ UNCHANGED <<parseVars, serveVars, streamVars, zipVars, upstreamVars, monitorVars, gatewayVars, walkVars>>
    \/ EndOfCentralDirectory /\ UNCHANGED <<parseVars, serveVars, streamVars, zipVars, upstreamVars, monitorVars, gatewayVars, walkVars>>
    \/ ZipDate /\ UNCHANGED <<parseVars, serveVars, streamVars, zipVars, upstreamVars, monitorVars, gatewayVars, walkVars>>
    \/ ZipTime /\ UNCHANGED <<parseVars, serveVars, streamVars, zipVars, upstreamVars, monitorVars, gatewayVars, walkVars>>

SpecHeaders == InitHeaders /\ [][NextHeaders]_vars

(***************************************************************************)
(* One response body behind its monitor, held by hyper's HTTP/1 connection *)
(* (main.rs: http1::Builder).  The connection polls the body while the     *)
(* Content-Length is not reached and drops it once it is (the doc comment  *)
(* of StreamMonitor), when the body yields an error or ends early, or when *)
(* the client goes away.  The wrapped stream is any stream: it may be      *)
(* pending, yield a chunk, fail or end at each poll, and may hold fewer or *)
(* more bytes than expected.                                               *)
(***************************************************************************)
MaxPolls == 4

MaxExpected == 3

Chunks == UNION {[1..n -> {1, 2}] : n \in 0..MaxChunk}

PollResults == {PollPending, PollErr, PollNone} \cup {PollOk(c) : c \in Chunks}

InitMonitor ==
    /\ \E len \in 0..MaxExpected : monitor = StreamMonitor_new(U64(len))
    /\ inner = <<>>
    /\ polled = <<>>
    /\ log = <<>>
    /\ consumer = "hyper"
    /\ ParseIdle
    /\ ServeIdle
    /\ StreamIdle
    /\ ZipIdle
    /\ UpstreamIdle
    /\ HeaderIdle
    /\ GatewayIdle
    /\ WalkIdle

\* The connection polls the body for its next frame.
PollNext ==
    /\ consumer = "hyper"
    /\ Len(inner) < MaxPolls
    /\ lt(monitor.pos, monitor.len)
    /\ IF polled = <<>> THEN TRUE ELSE polled[Len(polled)].kind \notin {"Err", "None"}
    /\ \E r \in PollResults :
         /\ inner' = Append(inner, r)
         /\ monitor' = StreamMonitor_poll_next(monitor, r).this
         /\ polled' = Append(polled, StreamMonitor_poll_next(monitor, r).ret)
    /\ UNCHANGED <<log, consumer>>

\* The connection drops the body.
DropBody ==
    /\ consumer = "hyper"
    /\ log' = Append(log, StreamMonitor_drop(monitor))
    /\ consumer' = "dropped"
    /\ UNCHANGED <<monitor, inner, polled>>

NextMonitor ==
    \/ PollNext /\ UNCHANGED <<parseVars, serveVars, streamVars, zipVars, upstreamVars, headerVars, gatewayVars, walkVars>>
    \/ DropBody /\ UNCHANGED <<parseVars, serveVars, streamVars, zipVars, upstreamVars, headerVars, gatewayVars, walkVars>>

SpecMonitor == InitMonitor /\ [][NextMonitor]_vars

(***************************************************************************)
(* Inputs of the gateway                                                   *)
(***************************************************************************)
MaxHeaderLines == 2

\* "http://u", "/z", "zs"
Configs ==
    {Config(<<"h", "t", "t", "p", ":", "/", "/", "u">>, prefix, <<"z", "s">>) :
        prefix \in {<<>>, <<"/", "z">>}}

Methods == {"GET", "POST", "HEAD"}

\* "/z/a", "/z/a?q", "/z", "/y/z", "/"
Paths == {<<"/", "z", "/", "a">>, <<"/", "z", "/", "a", "?", "q">>, <<"/", "z">>,
          <<"/", "y", "/", "z">>, <<"/">>}

\* The header lines a client may send: kept ones (Cookie with two values),
\* others, and a X-Via-Zip-Stream of its own.
LinePool ==
    {HeaderLine("authorization", <<"A">>), HeaderLine("cookie", <<"c", "1">>),
     HeaderLine("cookie", <<"c", "2">>), HeaderLine("user-agent", <<"U">>),
     HeaderLine("referer", <<"R">>), HeaderLine("range", BytesUnit \o <<"0", "-", "1">>),
     HeaderLine("x-via-zip-stream", <<"e", "v", "i", "l">>)}

HeaderMaps == UNION {[1..n -> LinePool] : n \in 0..MaxHeaderLines}

ClientRequests ==
    {ClientRequest(m, p, hs) : m \in Methods, p \in Paths, hs \in HeaderMaps}

\* One file "a" (s3://b/k, 2 bytes), or none.
GatewayManifests ==
    {UpstreamResponse(<<"b">>, <<>>), UpstreamResponse(<<"a", ".", "z", "i", "p">>, <<DescAK>>)}

\* Responses of the upstream service.
UpstreamAnswers ==
    {UpstreamAnswer(TRUE, status, FALSE, TRUE, FALSE, UpstreamResponse(<<>>, <<>>)) :
        status \in {200, 302, 404}}
    \cup {UpstreamAnswer(TRUE, 200, TRUE, FALSE, FALSE, UpstreamResponse(<<>>, <<>>)),
          UpstreamAnswer(TRUE, 200, TRUE, TRUE, FALSE, UpstreamResponse(<<>>, <<>>))}
    \cup {UpstreamAnswer(TRUE, 200, TRUE, TRUE, TRUE, m) : m \in GatewayManifests}

(***************************************************************************)
(* App::handle_request as a state machine: upstream::request, the request  *)
(* sent upstream, the upstream body collected, upstream::response          *)
(***************************************************************************)
InitGateway ==
    /\ app \in Configs
    /\ incoming \in ClientRequests
    /\ upstream_req = Rejected(0, "")
    /\ upstream_res = NoAnswer
    /\ outcome = NoReply
    /\ stage = "incoming"
    /\ ParseIdle
    /\ ServeIdle
    /\ StreamIdle
    /\ ZipIdle
    /\ UpstreamIdle
    /\ HeaderIdle
    /\ MonitorIdle
    /\ WalkIdle

\* upstream::request(&self.config, &req)?
HandleRequest ==
    /\ stage = "incoming"
    /\ upstream_req' = upstream_request(app, incoming)
    /\ IF upstream_req'.ok
       THEN stage' = "upstream" /\ outcome' = outcome
       ELSE stage' = "done" /\ outcome' = Reply("error", upstream_req'.status, upstream_req'.msg, NoAnswer)
    /\ UNCHANGED <<app, incoming, upstream_res, serveVars, streamVars, zipVars>>

\* self.upstream_client.request(upstream_req).await fails.
UpstreamConnectionFailed ==
    /\ stage = "upstream"
    /\ upstream_res' = NoAnswer
    /\ outcome' = Reply("error", 503, "Upstream connection failed", NoAnswer)
    /\ stage' = "done"
    /\ UNCHANGED <<app, incoming, upstream_req, serveVars, streamVars, zipVars>>

\* The upstream service answers; a response without X-Zip-Stream is passed on.
UpstreamAnswered ==
    /\ stage = "upstream"
    /\ upstream_res' \in UpstreamAnswers
    /\ IF upstream_res'.x_zip_stream
       THEN stage' = "body" /\ outcome' = outcome
       ELSE stage' = "done" /\ outcome' = Reply("proxied", upstream_res'.status, "", upstream_res')
    /\ UNCHANGED <<app, incoming, upstream_req, serveVars, streamVars, zipVars>>

\* upstream_res.into_body().collect().await fails.
UpstreamBodyFailed ==
    /\ stage = "body"
    /\ ~upstream_res.readable
    /\ outcome' = Reply("error", 503, "Upstream request failed", NoAnswer)
    /\ stage' = "done"
    /\ UNCHANGED <<app, incoming, upstream_req, upstream_res, serveVars, streamVars, zipVars>>

\* An undecodable body answered like an unreadable one.
UpstreamBodyUndecodable_as_unavailable ==
    /\ stage = "body"
    /\ upstream_res.readable
    /\ ~upstream_res.decodes
    /\ outcome' = Reply("error", 503, "Upstream request failed", NoAnswer)
    /\ stage' = "done"
    /\ UNCHANGED <<app, incoming, upstream_req, upstream_res, serveVars, streamVars, zipVars>>

\* upstream::response on a body serde_json does not decode.
UpstreamBodyUndecodable ==
    /\ stage = "body"
    /\ upstream_res.readable
    /\ ~upstream_res.decodes
    /\ outcome' = Reply("error", 500, "Failed to parse upstream request", NoAnswer)
    /\ stage' = "done"
    /\ UNCHANGED <<app, incoming, upstream_req, upstream_res, serveVars, streamVars, zipVars>>

\* upstream::response on a body that decodes: the archive response.
UpstreamManifestDecoded ==
    /\ stage = "body"
    /\ upstream_res.readable
    /\ upstream_res.decodes
    /\ req' = [range |-> header_of(incoming.headers, "range"),
               if_range |-> header_of(incoming.headers, "if-range")]
    /\ zip_entries' = manifest_entries(sorted_manifest(upstream_res.manifest))
    /\ data' = zip_stream(zip_entries', ZipOptions_default)
    /\ res' = hyper_response(req', ApplicationZip,
                             manifest_etag(sorted_manifest(upstream_res.manifest)),
                             upstream_res.manifest.filename, data')
    /\ requested' = res'.range
    /\ streams' = res'.stream
    /\ outcome' = Reply("archive", res'.status, "", NoAnswer)
    /\ stage' = "done"
    /\ UNCHANGED <<pc, body, gets, zip_options, full, app, incoming, upstream_req, upstream_res>>

NextGateway ==
    \/ HandleRequest /\ UNCHANGED <<parseVars, upstreamVars, headerVars, monitorVars, walkVars>>
    \/ UpstreamConnectionFailed /\ UNCHANGED <<parseVars, upstreamVars, headerVars, monitorVars, walkVars>>
    \/ UpstreamAnswered /\ UNCHANGED <<parseVars, upstreamVars, headerVars, monitorVars, walkVars>>
    \/ UpstreamBodyFailed /\ UNCHANGED <<parseVars, upstreamVars, headerVars, monitorVars, walkVars>>
    \/ UpstreamBodyUndecodable /\ UNCHANGED <<parseVars, upstreamVars, headerVars, monitorVars, walkVars>>
    \/ UpstreamManifestDecoded /\ UNCHANGED <<parseVars, upstreamVars, headerVars, monitorVars, walkVars>>

SpecGateway == InitGateway /\ [][NextGateway]_vars

(***************************************************************************)
(* Inputs of take_prefix                                                   *)
(***************************************************************************)
MaxChildren == 3

\* Offsets and lengths: small ones, and the two largest of u64.
WalkValues == {U64(0), U64(1), U64(2), U64(3), <<65534, 65535, 65535, 65535>>, U64_MAX}

\* Every Range with start <= end over them.
WalkRanges == {r \in [start : WalkValues, end : WalkValues] : ~lt(r.end, r.start)}

\* The lengths of the children of a Concatenated, in order.
ChildLens == UNION {[1..n -> WalkValues] : n \in 1..MaxChildren}

(***************************************************************************)
(* take_prefix called for one child after the other                        *)
(***************************************************************************)
InitWalk ==
    /\ walk_state = "walking"
    /\ walk_from \in WalkRanges
    /\ walk_range = walk_from
    /\ walk_lens \in ChildLens
    /\ walk_taken = <<>>
    /\ ParseIdle
    /\ ServeIdle
    /\ StreamIdle
    /\ ZipIdle
    /\ UpstreamIdle
    /\ HeaderIdle
    /\ MonitorIdle
    /\ GatewayIdle

\* range.take_prefix(part.len()) for the next child.
TakePrefix ==
    /\ walk_state = "walking"
    /\ walk_lens # <<>>
    /\ LET ret == take_prefix(walk_range, Head(walk_lens))
       IN  /\ walk_range' = ret.rest
           /\ walk_taken' = Append(walk_taken, [self |-> walk_range, len |-> Head(walk_lens),
                                                prefix |-> ret.prefix, rest |-> ret.rest])
    /\ walk_lens' = Tail(walk_lens)
    /\ UNCHANGED <<walk_state, walk_from>>

NextWalk ==
    \/ TakePrefix /\ UNCHANGED <<parseVars, serveVars, streamVars, zipVars, upstreamVars, headerVars, monitorVars, gatewayVars>>

SpecWalk == InitWalk /\ [][NextWalk]_vars

(***************************************************************************)
(* Inputs of zip_stream: manifests of any u64 lengths                      *)
(***************************************************************************)
MaxLayoutFiles == 2

\* Declared lengths of objects: empty, small, such that the next entry
\* starts at 0xFFFFFFFE or at 0xFFFFFFFF, 0xFFFFFFFF, 2^32, 2^63, 70 less
\* than the largest u64, and the largest.
LargeLens ==
    {U64(0), U64(3), <<65494, 65535, 0, 0>>, <<65495, 65535, 0, 0>>, U32_MAX, <<0, 0, 1, 0>>,
     <<0, 0, 0, 32768>>, <<65465, 65535, 65535, 65535>>, U64_MAX}

\* "o", an object of the store of the declared length, as upstream::response
\* builds it from a manifest entry.
LargeEntry(len) == ZipEntry(<<111>>, S3Object(<<98>>, <<107>>, len), U32(\h1234, \h5678), T2018)

LayoutPool == {LargeEntry(len) : len \in LargeLens}

LayoutLists == UNION {[1..n -> LayoutPool] : n \in 0..MaxLayoutFiles}

(***************************************************************************)
(* zip_stream and len() on such manifests                                  *)
(***************************************************************************)
InitLayout ==
    /\ pc = "build"
    /\ zip_entries \in LayoutLists
    /\ zip_options \in [force_zip64 : BOOLEAN]
    /\ requested = Range(U64(0), U64(0))
    /\ full = NoFull
    /\ req = NoRequest
    /\ data = Bytes(<<>>)
    /\ res = NoResponse
    /\ StreamIdle
    /\ ParseIdle
    /\ UpstreamIdle
    /\ HeaderIdle
    /\ MonitorIdle
    /\ GatewayIdle
    /\ WalkIdle

\* zip_stream in a build with overflow checks, an addition overflowing.
ZipStreamPanic ==
    /\ pc = "build"
    /\ zip_stream_overflows(zip_entries, zip_options)
    /\ pc' = "panicked"
    /\ UNCHANGED <<req, data, res, streamVars, zipVars>>

\* stream.len(), and the range of the whole archive made from it.
ConcatenatedLen ==
    /\ pc = "ready"
    /\ requested' = Range(U64(0), StreamRange_len(data))
    /\ pc' = "measured"
    /\ UNCHANGED <<req, data, res, streamVars, zip_entries, zip_options, full>>

\* stream.len() in a build with overflow checks, the sum overflowing.
ConcatenatedLenPanic ==
    /\ pc = "ready"
    /\ sum_overflows(data.parts, U64(0))
    /\ pc' = "panicked"
    /\ UNCHANGED <<req, data, res, streamVars, zipVars>>

NextLayout ==
    \/ ZipStream /\ UNCHANGED <<parseVars, upstreamVars, headerVars, monitorVars, gatewayVars, walkVars>>
    \/ ZipStreamPanic /\ UNCHANGED <<parseVars, upstreamVars, headerVars, monitorVars, gatewayVars, walkVars>>
    \/ ConcatenatedLen /\ UNCHANGED <<parseVars, upstreamVars, headerVars, monitorVars, gatewayVars, walkVars>>
    \/ ConcatenatedLenPanic /\ UNCHANGED <<parseVars, upstreamVars, headerVars, monitorVars, gatewayVars, walkVars>>

SpecLayout == InitLayout /\ [][NextLayout]_vars

(***************************************************************************)
(* Claims about parse_range                                                *)
(***************************************************************************)
Called == parsed # Pending

HasUnit == starts_with(range_val, BytesUnit)

\* The header value after "bytes=", and the same trimmed.
Rest == SubSeq(range_val, Len(BytesUnit) + 1, Len(range_val))

TrimmedRest == trim(Rest)

Pads == {<<>>, <<" ">>}

MaxDigits == <<"1", "8", "4", "4", "6", "7", "4", "4", "0", "7",
               "3", "7", "0", "9", "5", "5", "1", "6", "1", "5">>

\* d, a sequence of digits, is a decimal numeral of at most u64::MAX.
FitsU64(d) ==
    LET nz == {i \in 1..Len(d) : d[i] # "0"}
        z == IF nz = {} THEN <<>>
             ELSE SubSeq(d, CHOOSE i \in nz : \A j \in nz : i <= j, Len(d))
    IN  \/ Len(z) < 20
        \/ /\ Len(z) = 20
           /\ \/ z = MaxDigits
              \/ \E i \in 1..20 : /\ DigitVal(z[i]) < DigitVal(MaxDigits[i])
                                  /\ \A j \in 1..(i - 1) : z[j] = MaxDigits[j]

\* tok is an unsigned decimal integer a u64 holds (one leading '+' allowed).
IsInteger(tok) ==
    LET d == IF tok # <<>> /\ tok[1] = "+" THEN Tail(tok) ELSE tok
    IN  d # <<>> /\ (\A i \in 1..Len(d) : IsDigit(d[i])) /\ FitsU64(d)

\* The number tokens of a trimmed remainder that holds a '-'.
NumberTokens(rv) ==
    IF rv[1] = "-" THEN {Tail(rv)}
    ELSE IF rv[Len(rv)] = "-" THEN {SubSeq(rv, 1, Len(rv) - 1)}
    ELSE {SubSeq(rv, 1, find(rv, "-") - 1), SubSeq(rv, find(rv, "-") + 1, Len(rv))}

\* C5: the three single-range forms.  For numerals M, N of u64 values and a
\* total length T: "bytes=M-" is Some{M, T} if M < T, else None; "bytes=-N" is
\* Some{T-N, T} if N < T, else None; "bytes=M-N" is Some{M, N+1} if N < T and
\* M <= N, else None.  Surrounding whitespace of the remainder is trimmed.
C5_ParseRangeForms ==
    Called =>
        \A m \in NumTokens, pre \in Pads, post \in Pads :
            /\ range_val = BytesUnit \o pre \o m.txt \o <<"-">> \o post
                 => parsed = IF lt(m.val, total_len) THEN OkSome(m.val, total_len)
                             ELSE OkNone
            /\ range_val = BytesUnit \o pre \o <<"-">> \o m.txt \o post
                 => IF lt(m.val, total_len)
                    THEN /\ parsed.kind = "Some"
                         /\ parsed.end = total_len
                         /\ overflowing_add(parsed.start, m.val)
                              = [val |-> total_len, overflow |-> FALSE]
                    ELSE parsed = OkNone
            /\ \A n \in NumTokens :
                 range_val = BytesUnit \o pre \o m.txt \o <<"-">> \o n.txt \o post
                 => parsed = IF lt(n.val, total_len) /\ ~lt(n.val, m.val)
                             THEN OkSome(m.val, overflowing_add(n.val, U64(1)).val)
                             ELSE OkNone

\* parse_range("bytes=4-9", 10) has returned Some{4, 10}.
C5_Witness ==
    /\ range_val = BytesUnit \o <<"4", "-", "9">>
    /\ total_len = U64(10)
    /\ parsed = OkSome(U64(4), U64(10))

\* C6: every range parse_range returns lies inside the content: Some(r)
\* implies r.start < T and r.end <= T.
C6_SomeWithinTotal ==
    parsed.kind = "Some" => lt(parsed.start, total_len) /\ ~lt(total_len, parsed.end)

\* C7: parse_range is total (it returns Err, Ok(None) or Ok(Some), never
\* overflows) and classifies in a fixed order: no "bytes=" prefix is
\* "invalid range unit", even with a comma; else a comma is Ok(None) before
\* any number is looked at; else a number token that is no u64 integer is
\* "invalid range number"; else a remainder without '-' is "invalid range".
C7_ParseRangeTotal ==
    Called =>
        /\ parsed.kind \in {"Err", "None", "Some"}
        /\ ~HasUnit => parsed = Err("invalid range unit")
        /\ HasUnit /\ contains(Rest, ",") => parsed = OkNone
        /\ HasUnit /\ ~contains(Rest, ",") /\ contains(Rest, "-")
             => (parsed = Err("invalid range number")
                   <=> \E tok \in NumberTokens(TrimmedRest) : ~IsInteger(tok))
        /\ HasUnit /\ ~contains(Rest, ",") /\ ~contains(Rest, "-")
             => parsed = Err("invalid range")

\* parse_range("bytes=a-", T) has returned Err("invalid range number").
C7_Witness ==
    /\ range_val = BytesUnit \o <<"a", "-">>
    /\ parsed = Err("invalid range number")

(***************************************************************************)
(* Claims about the archive zip_stream builds                              *)
(***************************************************************************)
\* The whole archive has been streamed to its end (and not yet kept).
WholeStreamed == pc = "done" /\ ~full.some

\* One range of the archive has been streamed to its end.
SliceStreamed == pc = "done" /\ full.some

\* zip64 structures are written: the entries here are all far below 2^32
\* bytes, so only the option asks for them.
Zip64 == zip_options.force_zip64

\* The lengths the headers are allocated with: local header, central
\* directory header, trailer.
LocalHeaderLen(file) == 30 + Len(file.archive_path) + (IF Zip64 THEN 20 ELSE 0) + 9

CentralHeaderLen(file) == 46 + Len(file.archive_path) + (IF Zip64 THEN 28 ELSE 0) + 9

TrailerLen == (IF Zip64 THEN 56 + 20 ELSE 0) + 22

RECURSIVE EntriesLen(_)
EntriesLen(fs) ==
    IF fs = <<>> THEN 0
    ELSE LocalHeaderLen(Head(fs)) + as_usize(Head(fs).data.len) + CentralHeaderLen(Head(fs))
         + EntriesLen(Tail(fs))

\* C1: the bytes stream_range yields for a range a..b of an archive built by
\* zip_stream are exactly bytes a..b of what the whole archive yields, for
\* every entry list, either value of force_zip64 and every 0 <= a <= b <= len;
\* no child is asked for a range outside itself.
C1_SubsetLaw ==
    /\ \A i \in DOMAIN streams : streams[i].type # "Panic"
    /\ SliceStreamed =>
         body = SubSeq(full.bytes, as_usize(requested.start) + 1, as_usize(requested.end))

\* A range that starts inside a header, ends inside a later child and takes
\* in bytes of an object of the store has been streamed.
C1_Witness ==
    /\ SliceStreamed
    /\ Len(zip_entries) >= 2
    /\ as_usize(requested.start) \notin Boundaries(data.parts, 0)
    /\ as_usize(requested.end) \notin Boundaries(data.parts, 0)
    /\ as_usize(requested.start) > 0
    /\ as_usize(requested.end) < as_usize(StreamRange_len(data))
    /\ gets # <<>>
    /\ \E i \in DOMAIN body : body[i] < 256
    /\ \E i \in DOMAIN body : body[i] >= 256

\* C2: streaming the whole archive yields exactly len() bytes, and len() is
\* the sum of the lengths of the local headers, the entry data, the central
\* directory headers and the trailer; no object is requested before the
\* stream is polled.
C2_LengthExactness ==
    /\ pc = "ready" /\ ~full.some => gets = <<>>
    /\ WholeStreamed =>
         /\ requested = Range(U64(0), StreamRange_len(data))
         /\ U64(Len(body)) = StreamRange_len(data)
         /\ as_usize(StreamRange_len(data)) = EntriesLen(zip_entries) + TrailerLen

\* A zip64 archive of two entries, one of them an object of the store, has
\* been streamed whole.
C2_Witness ==
    /\ WholeStreamed
    /\ Zip64
    /\ Len(zip_entries) >= 2
    /\ \E i \in DOMAIN zip_entries : zip_entries[i].data.type = "S3Object"
    /\ gets # <<>>
    /\ Len(body) > 0

(***************************************************************************)
(* Claims about hyper_response                                             *)
(***************************************************************************)
Responded == pc \in {"streaming", "done"}

\* L, the length of the content that is served.
FullLen == U64(Len(Content(data)))

\* The request carries an If-Range header whose value is not the etag.
IfRangeMismatch == req.if_range.present /\ ~(req.if_range.text /\ req.if_range.val = TestEtag)

\* What parse_range makes of the request's Range header, when it is text.
ParsedHeader == parse_range(req.range.val, FullLen)

\* The response is 200 with the full content: no Content-Range, the full
\* Content-Length and, once the body has ended, the whole content as body.
ServedFull ==
    /\ res.status = 200
    /\ res.content_range = NoHeader
    /\ res.content_length = Text(to_string(FullLen))
    /\ data = TestData => res.content_length = Text(<<"1", "0">>)
    /\ pc = "done" => body = Content(data)

\* C3: an If-Range header that differs from the etag makes hyper_response
\* ignore the Range header, whatever it holds: 200, no Content-Range,
\* Content-Length the full length, the full content as body.
C3_IfRangeMismatchServesFull == Responded /\ IfRangeMismatch => ServedFull

\* Range: bytes=4-8 with If-Range: WRONG was answered with the whole content.
C3_Witness ==
    /\ pc = "done"
    /\ req = [range |-> Text(BytesUnit \o <<"4", "-", "8">>), if_range |-> Text(WrongEtag)]
    /\ data = TestData
    /\ res.status = 200
    /\ body = TestData.data

\* C4: with If-Range absent or equal to the etag and a Range header that
\* parse_range reads as Some{S, E}, the response is 206 with Content-Range
\* "bytes S-(E-1)/L", Content-Length E-S and bytes S..E of the content as body.
C4_PartialResponse ==
    Responded /\ ~IfRangeMismatch /\ req.range.present /\ req.range.text
              /\ ParsedHeader.kind = "Some" =>
        LET S == ParsedHeader.start
            E == ParsedHeader.end
        IN  /\ res.status = 206
            /\ res.content_range =
                 Text(<<"b", "y", "t", "e", "s", " ">> \o to_string(S) \o <<"-">>
                      \o to_string(overflowing_sub(E, U64(1)).val) \o <<"/">>
                      \o to_string(FullLen))
            /\ res.content_length = Text(to_string(overflowing_sub(E, S).val))
            /\ pc = "done" => body = SubSeq(Content(data), as_usize(S) + 1, as_usize(E))
            /\ data = TestData /\ req.range.val = BytesUnit \o <<"4", "-", "8">> =>
                 /\ res.content_range =
                      Text(<<"b", "y", "t", "e", "s", " ", "4", "-", "8", "/", "1", "0">>)
                 /\ res.content_length = Text(<<"5">>)
                 /\ pc = "done" => body = <<52, 53, 54, 55, 56>>

\* Range: bytes=4-8 with If-Range: ETAG was answered with bytes 4..8.
C4_Witness ==
    /\ pc = "done"
    /\ req = [range |-> Text(BytesUnit \o <<"4", "-", "8">>), if_range |-> Text(TestEtag)]
    /\ data = TestData
    /\ res.status = 206
    /\ body = <<52, 53, 54, 55, 56>>

\* C8: a Range header that is absent, not text, an error for parse_range or
\* Ok(None) for it never makes hyper_response reject the request: the
\* response is 200 with the full content.
C8_ServeFullOnAmbiguity ==
    Responded /\ (\/ ~req.range.present
                  \/ ~req.range.text
                  \/ ParsedHeader.kind \in {"Err", "None"}) => ServedFull

\* The malformed Range: bytes=a- (with a matching If-Range) was answered
\* with the whole content.
C8_Witness ==
    /\ pc = "done"
    /\ req = [range |-> Text(BytesUnit \o <<"a", "-">>), if_range |-> Text(TestEtag)]
    /\ data = TestData
    /\ res.status = 200
    /\ body = TestData.data

\* C9: every response carries Content-Type, Accept-Ranges: bytes, ETag and
\* Content-Disposition: attachment; filename="<filename>"; its Content-Length
\* is the number of bytes the body yields; Content-Range is there if and
\* only if the status is 206.
C9_ResponseHeaders ==
    Responded =>
        /\ res.status \in {200, 206}
        /\ res.content_type = Text(TestContentType)
        /\ res.accept_ranges = Text(<<"b", "y", "t", "e", "s">>)
        /\ res.etag = Text(TestEtag)
        /\ res.content_disposition =
             Text(<<"a", "t", "t", "a", "c", "h", "m", "e", "n", "t", ";", " ",
                    "f", "i", "l", "e", "n", "a", "m", "e", "=", "\"",
                    "f", "o", "o", ".", "z", "i", "p", "\"">>)
        /\ res.content_range.present <=> res.status = 206
        /\ res.content_length.present /\ res.content_length.text
        /\ pc = "done" =>
             parse_u64(res.content_length.val) = [ok |-> TRUE, val |-> U64(Len(body))]

\* A 206 over the concatenated source has ended after yielding 4 bytes.
C9_Witness ==
    /\ pc = "done"
    /\ res.status = 206
    /\ data.type = "Concatenated"
    /\ res.content_length = Text(<<"4">>)
    /\ Len(body) = 4

(***************************************************************************)
(* Claims about the upstream adapter                                       *)
(***************************************************************************)
\* a sorts strictly before b, byte by byte.
StrLess(a, b) ==
    \E k \in 1..Len(b) :
        /\ k <= Len(a) + 1
        /\ \A i \in 1..(k - 1) : a[i] = b[i]
        /\ k = Len(a) + 1 \/ a[k] < b[k]

\* (archive_name, source, length, crc, last_modified) of entry a is not
\* after that of entry b.
TupleLeq(a, b) ==
    \/ StrLess(a.archive_path, b.archive_path)
    \/ /\ a.archive_path = b.archive_path
       /\ \/ StrLess(a.data.bucket, b.data.bucket)
          \/ /\ a.data.bucket = b.data.bucket
             /\ \/ StrLess(a.data.key, b.data.key)
                \/ /\ a.data.key = b.data.key
                   /\ \/ lt(a.data.len, b.data.len)
                      \/ /\ a.data.len = b.data.len
                         /\ \/ lt(a.crc, b.crc)
                            \/ /\ a.crc = b.crc
                               /\ timestamp(a.last_modified) <= timestamp(b.last_modified)

\* The entries of the archive are those of the manifest, each as often.
SameEntries(fs, es) ==
    /\ Len(fs) = Len(es)
    /\ \A e \in {es[i] : i \in DOMAIN es} :
         Cardinality({i \in DOMAIN es : es[i] = e})
           = Cardinality({i \in DOMAIN fs :
                 fs[i] = ZipEntry(e.archive_name,
                                  S3Object(e.source.bucket, e.source.key, e.length),
                                  e.crc, e.last_modified)})

\* C10: whatever the order the manifest lists its entries in, the archive
\* holds them sorted by (archive_name, source, length, crc, last_modified);
\* the same manifest in another order gets the same ETag, the same layout,
\* length and entry order, and the same bytes.
C10_ManifestOrderIndependent ==
    /\ Responded /\ upstream # UpstreamResponse(<<>>, <<>>) =>
         /\ SameEntries(zip_entries, upstream.entries)
         /\ \A i \in DOMAIN zip_entries, j \in DOMAIN zip_entries :
              i < j => TupleLeq(zip_entries[i], zip_entries[j])
    /\ Responded /\ first.some =>
         /\ upstream.filename = first.upstream.filename
         /\ res.etag = first.etag
         /\ zip_entries = first.entries
         /\ data = first.data
         /\ StreamRange_len(data) = StreamRange_len(first.data)
         /\ Content(data) = Content(first.data)
         /\ pc = "done" => body = first.body

\* A manifest of three entries, two of them under one archive name, has been
\* answered in two different orders, neither of them the sorted one.
C10_Witness ==
    /\ pc = "done"
    /\ first.some
    /\ Len(upstream.entries) >= 3
    /\ upstream.entries # first.upstream.entries
    /\ \E i \in DOMAIN upstream.entries, j \in DOMAIN upstream.entries :
         /\ i < j
         /\ upstream.entries[i] # upstream.entries[j]
         /\ upstream.entries[i].archive_name = upstream.entries[j].archive_name
    /\ \E i \in DOMAIN zip_entries :
         zip_entries[i].archive_path # upstream.entries[i].archive_name
    /\ \E i \in DOMAIN zip_entries :
         zip_entries[i].archive_path # first.upstream.entries[i].archive_name
    /\ Len(body) > 0

(***************************************************************************)
(* Claims about the ZIP headers                                            *)
(***************************************************************************)
\* Reading a header back: the little-endian fields at a byte offset.
get_u16_le(b, at) == b[at + 1] + 256 * b[at + 2]

get_u32_le(b, at) == <<get_u16_le(b, at), get_u16_le(b, at + 2), 0, 0>>

get_u64_le(b, at) ==
    <<get_u16_le(b, at), get_u16_le(b, at + 2), get_u16_le(b, at + 4), get_u16_le(b, at + 6)>>

\* 0xFFFFFFFF, the value a 32-bit field holds when the real one is elsewhere.
Sentinel32 == <<65535, 65535, 0, 0>>

\* 2^32 and 2^16
TwoTo32 == <<0, 0, 1, 0>>

TwoTo16 == <<0, 1, 0, 0>>

AtLeast(a, b) == ~lt(a, b)

HeaderReturned(fn) == header_ret.some /\ header_ret.fn = fn

\* The extra fields of a header: what follows the file name.
ExtraOf(b, fixed) == SubSeq(b, fixed + get_u16_le(b, fixed - (IF fixed = 30 THEN 4 ELSE 18)) + 1, Len(b))

\* A local file header in its ZIP64 form for an entry of `len` bytes, or in
\* its base form.
LocalIsZip64(b, len) ==
    /\ get_u32_le(b, 18) = Sentinel32
    /\ get_u32_le(b, 22) = Sentinel32
    /\ get_u16_le(b, 28) = 20 + 9
    /\ Len(ExtraOf(b, 30)) = 20 + 9
    /\ get_u16_le(ExtraOf(b, 30), 0) = 1
    /\ get_u16_le(ExtraOf(b, 30), 2) = 16
    /\ get_u64_le(ExtraOf(b, 30), 4) = len
    /\ get_u64_le(ExtraOf(b, 30), 12) = len

LocalIsBase(b, len) ==
    /\ get_u32_le(b, 18) = len
    /\ get_u32_le(b, 22) = len
    /\ get_u16_le(b, 28) = 9
    /\ Len(ExtraOf(b, 30)) = 9
    /\ get_u16_le(ExtraOf(b, 30), 0) = \h5455

CentralIsZip64(b, len, offset) ==
    /\ get_u32_le(b, 20) = Sentinel32
    /\ get_u32_le(b, 24) = Sentinel32
    /\ get_u32_le(b, 42) = Sentinel32
    /\ get_u16_le(b, 30) = 28 + 9
    /\ Len(ExtraOf(b, 46)) = 28 + 9
    /\ get_u16_le(ExtraOf(b, 46), 0) = 1
    /\ get_u16_le(ExtraOf(b, 46), 2) = 24
    /\ get_u64_le(ExtraOf(b, 46), 4) = len
    /\ get_u64_le(ExtraOf(b, 46), 12) = len
    /\ get_u64_le(ExtraOf(b, 46), 20) = offset

CentralIsBase(b, len, offset) ==
    /\ get_u32_le(b, 20) = len
    /\ get_u32_le(b, 24) = len
    /\ get_u32_le(b, 42) = offset
    /\ get_u16_le(b, 30) = 9
    /\ Len(ExtraOf(b, 46)) = 9
    /\ get_u16_le(ExtraOf(b, 46), 0) = \h5455

\* The per-entry rule with `limit` as the least length or offset that needs
\* ZIP64.
EntryRule(limit) ==
    LET b == header_ret.bytes
        len == header_call.file.data.len
        offset == header_call.offset
        force == header_call.force_zip64
    IN  /\ HeaderReturned("local_file_header") =>
             IF force \/ AtLeast(len, limit)
             THEN LocalIsZip64(b, len) /\ ~LocalIsBase(b, len)
             ELSE LocalIsBase(b, len) /\ ~LocalIsZip64(b, len)
        /\ HeaderReturned("central_directory_file_header") =>
             IF force \/ AtLeast(len, limit) \/ AtLeast(offset, limit)
             THEN CentralIsZip64(b, len, offset) /\ ~CentralIsBase(b, len, offset)
             ELSE CentralIsBase(b, len, offset) /\ ~CentralIsZip64(b, len, offset)

\* C11 (as amended): a local file header is in its ZIP64 form (both 32-bit
\* size fields 0xFFFFFFFF, the real sizes in a ZIP64 extra field) exactly when
\* force_zip64 is set or the data length is >= 0xFFFFFFFF (2^32 - 1); a
\* central directory header is in its ZIP64 form (sizes and offset
\* 0xFFFFFFFF, the real ones in the extra field) exactly when force_zip64 is
\* set or the data length or the local-header offset is >= 0xFFFFFFFF;
\* otherwise there is no ZIP64 extra field and the 32-bit fields hold the
\* real values.
C11_EntryZip64Rule == EntryRule(Sentinel32)

\* A central directory header was built for an entry shorter than 0xFFFFFFFF
\* at offset 0xFFFFFFFF exactly, without force_zip64.
C11_Witness ==
    /\ HeaderReturned("central_directory_file_header")
    /\ ~header_call.force_zip64
    /\ header_call.offset = Sentinel32
    /\ lt(header_call.file.data.len, Sentinel32)

\* C11 as the specification states it: the limit is 2^32.
C11_AsStated == EntryRule(TwoTo32)

\* The ZIP64 end of central directory record and its locator, at the front of
\* a trailer of 56 + 20 + 22 bytes.
TrailerHasZip64(b, central_directory_offset, size_of_central_directory, num_entries) ==
    /\ Len(b) = 56 + 20 + 22
    /\ get_u32_le(b, 0) = <<\h4b50, \h0606, 0, 0>>
    /\ get_u64_le(b, 4) = <<44, 0, 0, 0>>
    /\ get_u64_le(b, 24) = num_entries
    /\ get_u64_le(b, 32) = num_entries
    /\ get_u64_le(b, 40) = size_of_central_directory
    /\ get_u64_le(b, 48) = central_directory_offset
    /\ get_u32_le(b, 56) = <<\h4b50, \h0706, 0, 0>>
    /\ get_u64_le(b, 64) = overflowing_add(central_directory_offset, size_of_central_directory).val
    /\ get_u32_le(b, 72) = <<1, 0, 0, 0>>

\* The classic end of central directory: the last 22 bytes.
Classic(b) == SubSeq(b, Len(b) - 21, Len(b))

\* What a classic field holds for a real value: the sentinel from `limit` on,
\* the value itself below.
ClassicField(real, limit, sentinel) == IF AtLeast(real, limit) THEN sentinel ELSE real

\* The trailer rule with limit16 and limit32 as the least values that are
\* over-range.
TrailerRule(limit16, limit32) ==
    LET b == header_ret.bytes
        offset == header_call.central_directory_offset
        size == header_call.size_of_central_directory
        n == header_call.num_entries
        zip64 == TrailerHasZip64(b, offset, size, n)
        eocd == Classic(b)
    IN  HeaderReturned("end_of_central_directory") =>
            /\ zip64 <=> \/ header_call.force_zip64
                         \/ AtLeast(n, limit16)
                         \/ AtLeast(size, limit32)
                         \/ AtLeast(offset, limit32)
            /\ ~zip64 => Len(b) = 22
            /\ Len(eocd) = 22
            /\ get_u32_le(eocd, 0) = <<\h4b50, \h0605, 0, 0>>
            /\ get_u16_le(eocd, 4) = 0
            /\ get_u16_le(eocd, 6) = 0
            /\ <<get_u16_le(eocd, 8), 0, 0, 0>> = ClassicField(n, limit16, <<65535, 0, 0, 0>>)
            /\ <<get_u16_le(eocd, 10), 0, 0, 0>> = ClassicField(n, limit16, <<65535, 0, 0, 0>>)
            /\ get_u32_le(eocd, 12) = ClassicField(size, limit32, Sentinel32)
            /\ get_u32_le(eocd, 16) = ClassicField(offset, limit32, Sentinel32)
            /\ get_u16_le(eocd, 20) = 0
            /\ (\/ get_u16_le(eocd, 8) = 65535
                \/ get_u32_le(eocd, 12) = Sentinel32
                \/ get_u32_le(eocd, 16) = Sentinel32) => zip64

\* C12 (as amended): end_of_central_directory emits the ZIP64 end of central
\* directory record and its locator exactly when force_zip64 is set or
\* num_entries >= 0xFFFF or cd_size >= 0xFFFFFFFF or cd_offset >= 0xFFFFFFFF;
\* it always ends with the 22-byte classic record, in which each of the three
\* is its sentinel from that limit on and its real, untruncated value below;
\* no sentinel appears in the classic record without the ZIP64 record.
C12_TrailerRule == TrailerRule(<<65535, 0, 0, 0>>, Sentinel32)

\* A trailer was built without force_zip64 for exactly 0xFFFF entries, the
\* directory's size and offset being small.
C12_Witness ==
    /\ HeaderReturned("end_of_central_directory")
    /\ ~header_call.force_zip64
    /\ header_call.num_entries = <<65535, 0, 0, 0>>
    /\ lt(header_call.size_of_central_directory, Sentinel32)
    /\ lt(header_call.central_directory_offset, Sentinel32)

\* C12 as the specification states it: the limits are 2^16 and 2^32.
C12_AsStated == TrailerRule(TwoTo16, TwoTo32)

\* The year field of a DOS date as the specification has it: years before
\* 1980 saturate to 0.
SaturatedYear(t) == IF t.year >= 1980 THEN t.year - 1980 ELSE 0

\* C13: for every UTC instant t, zip_time(t) = floor(second/2) | minute<<5 |
\* hour<<11 and zip_date(t) = day | month<<5 | y<<9 as 16-bit values, where
\* y = year - 1980 from 1980 on and y = 0 for every year before 1980;
\* 2006-10-11T15:40:56Z gives the time 0x7d1c and the date 0x354b.  (The
\* fields do not overlap, so | is +.)
C13_DosTimestamps ==
    LET t == header_call.t
    IN  /\ HeaderReturned("zip_time") =>
             /\ header_ret.value = (t.second \div 2) + t.minute * 32 + t.hour * 2048
             /\ t = DateTime(2006, 10, 11, 15, 40, 56) => header_ret.value = \h7d1c
        /\ HeaderReturned("zip_date") =>
             /\ header_ret.value = (t.day + t.month * 32 + SaturatedYear(t) * 512) % 65536
             /\ t = DateTime(2006, 10, 11, 15, 40, 56) => header_ret.value = \h354b

(***************************************************************************)
(* Claims about the object-store requests of one response                  *)
(***************************************************************************)
\* A small number in decimal.
Decimal(n) == IF n < 10 THEN <<Digits[n + 1]>> ELSE <<Digits[(n \div 10) + 1], Digits[(n % 10) + 1]>>

Max(a, b) == IF a > b THEN a ELSE b

Min(a, b) == IF a < b THEN a ELSE b

\* The overlaps of the range from..to of the archive with the data regions of
\* the entries fs, the first of which has its local header at offset `at`:
\* for each entry whose data is an object of the store and overlaps the range
\* in at least one byte, the object, the overlap in object coordinates and
\* the number of bytes of the range that precede it.
RECURSIVE Overlaps(_, _, _, _)
Overlaps(fs, at, from, to) ==
    IF fs = <<>> THEN <<>>
    ELSE LET file == Head(fs)
             dstart == at + LocalHeaderLen(file)
             dend == dstart + as_usize(file.data.len)
             s == Max(from, dstart)
             e == Min(to, dend)
         IN  (IF file.data.type = "S3Object" /\ s < e
              THEN <<[bucket |-> file.data.bucket, key |-> file.data.key,
                      s |-> s - dstart, e |-> e - dstart, len |-> as_usize(file.data.len),
                      before |-> s - from]>>
              ELSE <<>>)
             \o Overlaps(Tail(fs), dend, from, to)

RequestedOverlaps == Overlaps(zip_entries, 0, as_usize(requested.start), as_usize(requested.end))

\* The GET that asks for an overlap: "bytes=s-(e-1)".
GetOf(o) ==
    [bucket |-> o.bucket, key |-> o.key,
     range |-> <<"b", "y", "t", "e", "s", "=">> \o Decimal(o.s) \o <<"-">> \o Decimal(o.e - 1)]

\* C14: zip_stream and len() issue no object-store request; for a requested
\* range of the archive the GETs issued are, in order, one for each entry
\* whose data region overlaps the range in at least one byte and none else
\* (never more than those while the stream is read, exactly those once it
\* has ended), each asking for exactly the overlap in object coordinates,
\* "bytes=s-(e-1)" with 0 <= s < e <= the entry's length.
C14_OnlyOverlapsRead ==
    /\ pc = "build" => gets = <<>>
    /\ pc = "ready" /\ ~full.some => gets = <<>> /\ StreamRange_len(data) = sum_len(data.parts)
    /\ pc \in {"streaming", "done"} =>
         /\ Len(gets) <= Len(RequestedOverlaps)
         /\ \A k \in DOMAIN gets :
              /\ gets[k] = GetOf(RequestedOverlaps[k])
              /\ 0 <= RequestedOverlaps[k].s
              /\ RequestedOverlaps[k].s < RequestedOverlaps[k].e
              /\ RequestedOverlaps[k].e <= RequestedOverlaps[k].len
         /\ pc = "done" => Len(gets) = Len(RequestedOverlaps)

\* A range has been streamed to its end that starts inside the data of one
\* object and ends inside the data of another: two GETs, neither for a whole
\* object.
C14_Witness ==
    /\ SliceStreamed
    /\ Len(gets) = 2
    /\ RequestedOverlaps[1].s > 0
    /\ RequestedOverlaps[2].e < RequestedOverlaps[2].len

\* The body has been dropped before its end.
StreamDropped == pc = "dropped"

\* The number of bytes of the requested range up to the end of an overlap.
Through(o) == o.before + (o.e - o.s)

\* C20: within one response the GET for an entry is issued only when the
\* entry's part stream is first polled, which is when every byte of the
\* requested range before the entry's has been yielded: an entry with a GET
\* has all the bytes before its own yielded, an entry without one has had
\* no byte of its own yielded, and the entries before the last GET have had
\* all theirs yielded. So at most one GET is in flight (its object's bytes
\* not all yielded), and it is that of the part stream at the head; and when
\* the consumer drops the body early, no GET has been issued for the entries
\* not yet reached, and no part stream is left to issue one.
C20_SequentialLazyReads ==
    pc \in {"streaming", "done", "dropped"} =>
        LET overlaps == RequestedOverlaps
            yielded == Len(body)
            InFlight == {k \in DOMAIN gets : yielded < Through(overlaps[k])}
        IN  /\ Len(gets) <= Len(overlaps)
            /\ \A k \in DOMAIN overlaps :
                 /\ k <= Len(gets) => yielded >= overlaps[k].before
                 /\ k > Len(gets) => yielded <= overlaps[k].before
                 /\ k < Len(gets) => yielded >= Through(overlaps[k])
            /\ Cardinality(InFlight) <= 1
            /\ \A i \in DOMAIN streams :
                 /\ streams[i].opened => i = 1 /\ InFlight = {Len(gets)}
                 /\ (streams[i].type = "S3Object" /\ ~streams[i].opened) =>
                      /\ Len(gets) < Len(overlaps)
                      /\ i = 1 => InFlight = {} /\ yielded = overlaps[Len(gets) + 1].before
            /\ StreamDropped =>
                 /\ streams = <<>>
                 /\ \A k \in DOMAIN overlaps : overlaps[k].before > yielded => k > Len(gets)

\* The body of a range that overlaps two objects was dropped in the middle of
\* the first: one GET went out, none for the second object.
C20_Witness ==
    /\ StreamDropped
    /\ Len(RequestedOverlaps) = 2
    /\ Len(gets) = 1
    /\ Len(body) > RequestedOverlaps[1].before
    /\ Len(body) < Through(RequestedOverlaps[1])

(***************************************************************************)
(* Claims about the stream monitor                                         *)
(***************************************************************************)
\* The number of bytes in the chunks of a sequence of poll results.
RECURSIVE BytesIn(_)
BytesIn(rs) == IF rs = <<>> THEN 0 ELSE Len(Head(rs).bytes) + BytesIn(Tail(rs))

ErrorYielded == \E i \in DOMAIN inner : inner[i].kind = "Err"

Dropped == consumer = "dropped"

\* C15: the monitor returns every poll result of the wrapped stream
\* unchanged, pos is the number of bytes forwarded so far, and the monitor
\* logs nothing before it is dropped and exactly one status when it is:
\* "complete" if pos >= the expected length, otherwise "failed" if an error
\* was observed, otherwise "canceled" (so also when the client went away
\* before the stream ended).
C15_MonitorStatus ==
    /\ consumer \in {"hyper", "dropped"} =>
         /\ polled = inner
         /\ monitor.pos = U64(BytesIn(polled))
    /\ consumer = "hyper" => log = <<>>
    /\ Dropped =>
         /\ Len(log) = 1
         /\ log[1] = IF BytesIn(polled) >= as_usize(monitor.len) THEN "complete"
                     ELSE IF ErrorYielded THEN "failed"
                     ELSE "canceled"

\* The client went away after some bytes, before the stream ended or failed:
\* the monitor logged "canceled".
C15_Witness ==
    /\ Dropped
    /\ log = <<"canceled">>
    /\ BytesIn(polled) > 0
    /\ polled[Len(polled)].kind = "Ok"
    /\ \E i \in DOMAIN polled : polled[i].kind = "Pending"

\* C19: once the wrapped stream has yielded an error, at whatever point of
\* the response, the monitor holds the error (the expected length not being
\* reached) for as long as the connection holds the body, and the status it
\* logs when it is dropped is "failed", never "complete" or "canceled".
C19_ErrorIsFailed ==
    ErrorYielded =>
        /\ consumer = "hyper" => monitor.errored /\ lt(monitor.pos, monitor.len)
        /\ Dropped => log = <<"failed">>

\* The wrapped stream failed after it had yielded some bytes, and the body
\* was dropped.
C19_Witness ==
    /\ Dropped
    /\ ErrorYielded
    /\ BytesIn(polled) > 0
    /\ Len(log) = 1

(***************************************************************************)
(* Claims about the gateway                                                *)
(***************************************************************************)
\* upstream::request has been called on the client's request.
Handled == stage \in {"upstream", "body", "done"}

\* s with its first n characters removed.
Without(s, n) == [k \in 1..(Len(s) - n) |-> s[k + n]]

BeginsWith(s, p) == Len(p) <= Len(s) /\ \A k \in DOMAIN p : s[k] = p[k]

\* C16: every request that is not a GET is rejected with 405, whatever its
\* path; a GET whose path and query does not begin with strip_prefix is
\* rejected with 404; for any other the upstream URI is the upstream base
\* followed by the path and query without the prefix; a rejected request
\* produces no upstream request (and the gateway answers with the status at
\* once).
C16_RequestValidation ==
    Handled =>
        /\ incoming.method # "GET" =>
             /\ ~upstream_req.ok
             /\ upstream_req.status = 405
        /\ incoming.method = "GET" /\ ~BeginsWith(incoming.path_and_query, app.strip_prefix) =>
             /\ ~upstream_req.ok
             /\ upstream_req.status = 404
        /\ incoming.method = "GET" /\ BeginsWith(incoming.path_and_query, app.strip_prefix) =>
             /\ upstream_req.ok
             /\ upstream_req.uri =
                  app.upstream \o Without(incoming.path_and_query, Len(app.strip_prefix))
        /\ ~upstream_req.ok =>
             /\ upstream_req.uri = <<>>
             /\ upstream_req.headers = <<>>
             /\ stage = "done"
             /\ upstream_res = NoAnswer
             /\ outcome = Reply("error", upstream_req.status, upstream_req.msg, NoAnswer)

\* A POST to a path outside the prefix was rejected with 405, not 404.
C16_Witness ==
    /\ Handled
    /\ incoming.method = "POST"
    /\ ~BeginsWith(incoming.path_and_query, app.strip_prefix)
    /\ outcome.status = 405

\* The lines of a header map, as a set.
Lines(headers) == {headers[k] : k \in DOMAIN headers}

Kept == {KEEP_HEADERS[k] : k \in DOMAIN KEEP_HEADERS}

\* C17: the request sent upstream carries X-Via-Zip-Stream once, with the
\* configured value, and an empty body; apart from that line its header
\* lines are exactly the lines of the client's request named Authorization,
\* Cookie, User-Agent or Referer, with their values; no other header of the
\* client (Range, If-Range, a X-Via-Zip-Stream of its own) is in it.
C17_HeaderForwarding ==
    Handled /\ upstream_req.ok =>
        /\ upstream_req.body = <<>>
        /\ upstream_req.headers[1] = HeaderLine("x-via-zip-stream", app.via_zip_stream_header_value)
        /\ \A k \in 2..Len(upstream_req.headers) : upstream_req.headers[k].name # "x-via-zip-stream"
        /\ {l \in Lines(upstream_req.headers) : l.name # "x-via-zip-stream"}
             = {l \in Lines(incoming.headers) : l.name \in Kept}

\* C18: the outcome of a request that was sent upstream is decided once, when
\* handle_request returns: a failed upstream connection gives 503; an
\* upstream response without X-Zip-Stream is passed on as it is and no
\* archive is built; with X-Zip-Stream, a body that cannot be read gives 503,
\* a body that does not decode as a manifest gives 500, and a decoded
\* manifest, and nothing else, gives the archive response with 200 or 206.
C18_GatewayOutcome ==
    /\ stage # "done" => outcome = NoReply /\ res = NoResponse
    /\ stage = "done" /\ upstream_req.ok =>
         /\ ~upstream_res.connected =>
              outcome.kind = "error" /\ outcome.status = 503
         /\ upstream_res.connected /\ ~upstream_res.x_zip_stream =>
              /\ outcome.kind = "proxied"
              /\ outcome.status = upstream_res.status
              /\ outcome.passed = upstream_res
         /\ upstream_res.connected /\ upstream_res.x_zip_stream /\ ~upstream_res.readable =>
              outcome.kind = "error" /\ outcome.status = 503
         /\ (upstream_res.connected /\ upstream_res.x_zip_stream
                /\ upstream_res.readable /\ ~upstream_res.decodes) =>
              outcome.kind = "error" /\ outcome.status = 500
         /\ (upstream_res.connected /\ upstream_res.x_zip_stream
                /\ upstream_res.readable /\ upstream_res.decodes) =>
              /\ outcome.kind = "archive"
              /\ outcome.status \in {200, 206}
              /\ outcome.status = res.status
         /\ outcome.kind # "archive" =>
              /\ res = NoResponse
              /\ data = Bytes(<<>>)
              /\ zip_entries = <<>>
              /\ streams = <<>>

\* A manifest with an entry was decoded for a request with a Range header:
\* the archive is answered with 206.
C18_Witness ==
    /\ stage = "done"
    /\ outcome.kind = "archive"
    /\ outcome.status = 206
    /\ zip_entries # <<>>

(***************************************************************************)
(* Claims about Range::take_prefix                                         *)
(***************************************************************************)
\* The lengths of the children visited so far.
Visited == [k \in DOMAIN walk_taken |-> walk_taken[k].len]

\* Whether the lengths ls add up to at least the offset w: the running sum
\* either passes 2^64 or ends at w or above.
RECURSIVE ReachesFrom(_, _, _)
ReachesFrom(ls, w, acc) ==
    IF ~lt(acc, w) THEN TRUE
    ELSE IF ls = <<>> THEN FALSE
    ELSE LET next == overflowing_add(acc, Head(ls))
         IN  next.overflow \/ ReachesFrom(Tail(ls), w, next.val)

Reaches(ls, w) == ReachesFrom(ls, w, U64(0))

\* The lengths of the overlaps returned so far, added up.
RECURSIVE OverlapSum(_)
OverlapSum(ts) ==
    IF ts = <<>> THEN U64(0)
    ELSE overflowing_add(IF Head(ts).prefix.some THEN Range_len(Head(ts).prefix.range) ELSE U64(0),
                         OverlapSum(Tail(ts))).val

\* a - b, or 0 where b is the larger.
Shifted(a, b) == IF lt(a, b) THEN U64(0) ELSE overflowing_sub(a, b).val

IsEmpty(r) == r.start = r.end

\* What every call of take_prefix does, but for the emptiness of the overlap:
\* the overlap is {start, min(end, len)} if start < len and nothing
\* otherwise, it lies inside [0, len], start and end are shifted left by len
\* and stop at 0, start <= end is kept; and once the children visited reach
\* the end of the range the walk started from, the range left is empty and
\* the overlaps add up to the length of that range.
WalkLaw ==
    /\ \A k \in DOMAIN walk_taken :
         LET t == walk_taken[k]
         IN  /\ ~lt(t.self.end, t.self.start)
             /\ t.prefix.some <=> lt(t.self.start, t.len)
             /\ t.prefix.some =>
                  /\ t.prefix.range.start = t.self.start
                  /\ t.prefix.range.end = (IF lt(t.len, t.self.end) THEN t.len ELSE t.self.end)
                  /\ ~lt(t.prefix.range.end, t.prefix.range.start)
                  /\ ~lt(t.len, t.prefix.range.end)
             /\ t.rest = Range(Shifted(t.self.start, t.len), Shifted(t.self.end, t.len))
             /\ ~lt(t.rest.end, t.rest.start)
    /\ (walk_state = "walking" /\ Reaches(Visited, walk_from.end)) =>
         /\ IsEmpty(walk_range)
         /\ OverlapSum(walk_taken) = Range_len(walk_from)

Built == pc \in {"ready", "measured"}

NumEntries == Len(zip_entries)

\* The children of the archive: local header and data of each entry, then
\* the central directory headers, then the trailer.
LocalHeaderOf(i) == data.parts[2 * i - 1].data

CentralHeaderOf(i) == data.parts[2 * NumEntries + i].data

TrailerOf == data.parts[3 * NumEntries + 1].data

\* The position of child j in the archive: the lengths of the children before
\* it, added up.
PositionOf(j) == sum_len(SubSeq(data.parts, 1, j - 1))

\* The length of the archive is a u64, and so is every position in it.
Representable == ~sum_overflows(data.parts, U64(0))

\* The fields read back: a 32-bit field that holds the sentinel stands for
\* the 64-bit field of the ZIP64 structure.
StoredLocalOffset(c) ==
    IF get_u32_le(c, 42) = Sentinel32 /\ get_u16_le(ExtraOf(c, 46), 0) = 1
    THEN get_u64_le(ExtraOf(c, 46), 20)
    ELSE get_u32_le(c, 42)

TrailerIsZip64(t) == Len(t) = 56 + 20 + 22 /\ get_u32_le(t, 0) = <<\h4b50, \h0606, 0, 0>>

StoredField(t, classic, wide) ==
    IF classic = Sentinel32 /\ TrailerIsZip64(t) THEN wide ELSE classic

StoredCdOffset(t) == StoredField(t, get_u32_le(Classic(t), 16), get_u64_le(t, 48))

StoredCdSize(t) == StoredField(t, get_u32_le(Classic(t), 12), get_u64_le(t, 40))

StoredCount(t) ==
    IF get_u16_le(Classic(t), 8) = 65535 /\ TrailerIsZip64(t) THEN get_u64_le(t, 24)
    ELSE <<get_u16_le(Classic(t), 8), 0, 0, 0>>

\* C22: in every archive zip_stream builds whose length is a u64, the
\* local-header offset stored in the central directory header of entry i is
\* the position at which the local header of entry i starts; the trailer
\* stores the position of the first central directory header, the total
\* length of the central directory headers and the number of entries (in
\* the ZIP64 record too when there is one), and the offset in the ZIP64
\* locator is the position at which the ZIP64 end of central directory
\* record starts.
C22_OffsetsAreReal ==
    (Built /\ Representable) =>
        LET t == TrailerOf
            cd_at == PositionOf(2 * NumEntries + 1)
            cd_size == overflowing_sub(PositionOf(3 * NumEntries + 1), cd_at).val
        IN  /\ Len(data.parts) = 3 * NumEntries + 1
            /\ \A k \in 1..NumEntries :
                 /\ data.parts[2 * k] = zip_entries[k].data
                 /\ StoredLocalOffset(CentralHeaderOf(k)) = PositionOf(2 * k - 1)
            /\ StoredCdOffset(t) = cd_at
            /\ StoredCdSize(t) = cd_size
            /\ StoredCount(t) = U64(NumEntries)
            /\ get_u16_le(Classic(t), 10) = get_u16_le(Classic(t), 8)
            /\ TrailerIsZip64(t) =>
                 /\ get_u64_le(t, 24) = U64(NumEntries)
                 /\ get_u64_le(t, 32) = U64(NumEntries)
                 /\ get_u64_le(t, 40) = cd_size
                 /\ get_u64_le(t, 48) = cd_at
                 /\ get_u64_le(t, 64) = PositionOf(3 * NumEntries + 1)

\* An archive of two entries without force_zip64, the second of which starts
\* at 0xFFFFFFFF or past it: its offset is in the ZIP64 extra field, the
\* first one's in the 32-bit field, and the trailer has the ZIP64 record.
C22_Witness ==
    /\ Built
    /\ Representable
    /\ ~zip_options.force_zip64
    /\ NumEntries = 2
    /\ get_u32_le(CentralHeaderOf(1), 42) = U64(0)
    /\ get_u32_le(CentralHeaderOf(2), 42) = Sentinel32
    /\ AtLeast(PositionOf(3), Sentinel32)
    /\ TrailerIsZip64(TrailerOf)

\* C23 as it is stated: building the layout and measuring it never overflows
\* a u64: zip_stream and len() do not panic, and no sum they compute wraps.
C23_Infallible ==
    /\ pc # "panicked"
    /\ Built => ~zip_stream_overflows(zip_entries, zip_options)
    /\ pc = "measured" => ~sum_overflows(data.parts, U64(0))

\* The version needed to extract the two headers of entry k declare.
LocalVersion(k) == get_u16_le(LocalHeaderOf(k), 4)

CentralVersion(k) == get_u16_le(CentralHeaderOf(k), 6)

\* The entry's size, or the offset of its local header, is 0xFFFFFFFF or more.
SizeNeedsZip64(k) == AtLeast(zip_entries[k].data.len, Sentinel32)

OffsetNeedsZip64(k) == AtLeast(PositionOf(2 * k - 1), Sentinel32)

\* C24: the local file header of an entry declares version 45 if force_zip64
\* is set or the entry's size needs ZIP64 and 20 otherwise; its central
\* directory header declares 45 if force_zip64 is set or the entry's size or
\* its offset needs ZIP64 and 20 otherwise. So the two headers of an entry
\* declare the same version except for an entry that needs ZIP64 for its
\* offset only: 20 in the local header, 45 in the central directory.
C24_VersionNeeded ==
    (Built /\ Representable) =>
        \A k \in 1..NumEntries :
            /\ LocalVersion(k) =
                 (IF zip_options.force_zip64 \/ SizeNeedsZip64(k) THEN 45 ELSE 20)
            /\ CentralVersion(k) =
                 (IF zip_options.force_zip64 \/ SizeNeedsZip64(k) \/ OffsetNeedsZip64(k)
                  THEN 45 ELSE 20)
            /\ LocalVersion(k) # CentralVersion(k) <=>
                 (~zip_options.force_zip64 /\ ~SizeNeedsZip64(k) /\ OffsetNeedsZip64(k))

\* A small entry that starts past 0xFFFFFFFF, without force_zip64: 20 in its
\* local header, 45 in its central directory header.
C24_Witness ==
    /\ Built
    /\ Representable
    /\ \E k \in 1..NumEntries :
         /\ ~zip_options.force_zip64
         /\ ~SizeNeedsZip64(k)
         /\ OffsetNeedsZip64(k)
         /\ LocalVersion(k) = 20
         /\ CentralVersion(k) = 45

\* C24 as it is stated: both headers of an entry declare 45 if the entry's
\* size or its offset needs ZIP64 or force_zip64 is set, and 20 otherwise.
C24_AsStated ==
    (Built /\ Representable) =>
        \A k \in 1..NumEntries :
            LET version == IF \/ zip_options.force_zip64
                              \/ SizeNeedsZip64(k)
                              \/ OffsetNeedsZip64(k)
                           THEN 45 ELSE 20
            IN  LocalVersion(k) = version /\ CentralVersion(k) = version

====
